---- MODULE Spec2Model ----
(***************************************************************************)
(* Clipdozer: the playback/scrub synchronisation core.                     *)
(*                                                                         *)
(*   - VideoPlaybackController (app/media/playback.py)                     *)
(*   - TimelineWidget, the scrub bar (app/timeline.py)                     *)
(*   - ClipAdapter and the generation workers' decoder guards              *)
(*   - MainWindow's audio drift correction (app/ui/main_window.py)         *)
(*                                                                         *)
(* Times are integers counting 1/TimeRes of a second; a position           *)
(* current_frame / fps is the integer current_frame * TimeRes / fps, which *)
(* is exact because every frame rate of Clips divides TimeRes.             *)
(***************************************************************************)
EXTENDS Integers, Sequences, FiniteSets, TLC

None == "None"

\* time units per second
TimeRes == 4 * 24

\* largest wall-clock reading the model explores
MaxNow == 12

\* largest generation token the model explores
MaxGen == 2

\* the audio clock is followed up to this many milliseconds
MaxAudioMs == 300

\* at most this many files are imported or loaded into the preview panel
MaxImports == 1

\* a burst of resize events has at most this many
MaxResizes == 3

Min(a, b) == IF a < b THEN a ELSE b
Max(a, b) == IF a > b THEN a ELSE b

\* Python's int() of the quotient n/d (d > 0): truncation toward zero
Trunc(n, d) == IF n >= 0 THEN n \div d ELSE -((-n) \div d)

\* Python's round() of the quotient n/d (n >= 0, d > 0): half to even
Round(n, d) ==
    LET q == n \div d
        r == n % d
    IN  IF 2 * r < d THEN q
        ELSE IF 2 * r > d THEN q + 1
        ELSE IF q % 2 = 0 THEN q ELSE q + 1

(***************************************************************************)
(* The clips a controller can be given: fps as the decoder reports it (0  *)
(* when it reports none) and the duration in time units.                   *)
(***************************************************************************)
ClipTable ==
    [short |-> [fps |-> 24, duration |-> 25, audio |-> TRUE],   \* 6.25 frames
     slow  |-> [fps |-> 12, duration |-> 26, audio |-> FALSE],  \* 3.25 frames
     nofps |-> [fps |-> 0,  duration |-> 7,  audio |-> TRUE],   \* 24 * 7/96 = 1.75
     empty |-> [fps |-> 24, duration |-> 0,  audio |-> TRUE]]   \* empty clip

Clips == DOMAIN ClipTable

\* ClipAdapter.fps and ClipAdapter.duration of an adapter around the clip
AdapterFps(clip) == ClipTable[clip].fps
AdapterDuration(clip) == ClipTable[clip].duration

\* an Optional[float]: <<>> is None, <<t>> is the value t
NoTime == <<>>

\* requested seek times: negative, inside a frame, on a frame, beyond the end
SeekTimes == {-5, 3, 10, 23, 60}

\* wall-clock delays between two events
Delays == {3, 10}

VARIABLES
    clip_adapter,        \* VideoPlaybackController._clip_adapter
    state,               \* VideoPlaybackController._state (PlaybackState)
    timer_active,        \* VideoPlaybackController._timer.isActive()
    play_start_time,     \* VideoPlaybackController._play_start_time
    frame_skip_enabled,  \* VideoPlaybackController._frame_skip_enabled
    now,                 \* time.perf_counter()
    signals,             \* the signals the last handler emitted, in order
    last_state,          \* payload of the last stateChanged emitted
    call,                \* the last handler that ran, with its arguments
    raised,              \* TRUE iff the last handler ended by raising
    tl_duration,         \* TimelineWidget._duration
    in_point,            \* TimelineWidget._in_point
    out_point,           \* TimelineWidget._out_point
    slider_value,        \* TimelineWidget.slider.value()
    tl_call,             \* the last TimelineWidget method that ran
    tl_clip,             \* TimelineWidget._clip
    thumb_gen_id,        \* TimelineWidget._thumb_gen_id
    wave_gen_id,         \* TimelineWidget._wave_gen_id
    thumb_jobs,          \* the ThumbnailWorkers whose run() has not returned
    wave_jobs,           \* the WaveformWorkers whose run() has not returned
    thumb_results,       \* ThumbnailWorker signals queued for the GUI thread
    wave_results,        \* WaveformWorker signals queued for the GUI thread
    strip,               \* TimelineWidget.thumbnail_strip
    waveform,            \* TimelineWidget.waveform
    external_mutex,      \* the loaded clip's _external_mutex attribute
    mutex_owner,         \* the thread holding each QMutex, or None
    decoding,            \* the threads executing inside the clip's decoder
    decodes_left,        \* decode calls each worker thread has still to make
    decode_raised,       \* the threads whose last decode call raised
    audio_playing,       \* media_player.playbackState() == PlayingState
    audio_ms,            \* media_player.position(), in milliseconds
    sync_call,           \* the last audio handler run, its input, the audio before
    wk_thumb,            \* one ThumbnailWorker.run(), step by step
    wk_wave,             \* one WaveformWorker.run(), step by step
    resume_after_drag,   \* MainWindow._resume_after_drag
    was_playing_before_thumbs,  \* MainWindow._was_playing_before_thumbs
    audio_local,         \* media_player.source().isLocalFile()
    dragging,            \* a scrub drag has begun and not yet ended
    paused_by_thumbs,    \* _onThumbsBusy(True) paused playback, not yet resumed
    thumbs_busy,         \* thumbnailsBusy(True) was sent, (False) not yet
    win_call,            \* the last MainWindow handler run, with the audio
                         \* player calls it made
    applied,             \* per kind, the tokens of the results that passed the
                         \* stale check, in order
    shown_before,        \* per kind, what was displayed when the latest
                         \* generation started
    resize_timer,        \* TimelineWidget._resize_timer: remaining ms, or None
    resize_age,          \* ms since the last resizeEvent, while the timer runs
    resize_count,        \* resizeEvents since the timer was last idle
    slider_down,         \* TimelineWidget.slider.isSliderDown()
    tl_signals,          \* the signals the scrub bar emitted in the last handler
    formatted,           \* the last format_time call: argument and result
    sample_run,          \* the last sampling of a ThumbnailWorker: its
                         \* arguments and the timestamps it chose
    in_out_emitted,      \* the pair of the last inOutChanged emitted
    pending_thread,      \* TimelineWidget._pending_thread: <<the token of its
                         \* worker>>, or <<>> for None
    threads_done,        \* the thumbnail threads that have finished and whose
                         \* _clearThread has not run yet, by token
    tl_busy              \* <<the value of the last thumbnailsBusy>>, or <<>>

ctlVars == <<clip_adapter, state, timer_active, play_start_time,
             frame_skip_enabled, now, signals, last_state, call, raised>>

\* the scrub bar's position and markers
tlVars == <<tl_duration, in_point, out_point, slider_value, tl_call>>

\* the scrub bar's background generation
threadVars == <<pending_thread, threads_done, tl_busy>>

genVars == <<tl_clip, thumb_gen_id, wave_gen_id, thumb_jobs, wave_jobs,
             thumb_results, wave_results, strip, waveform, threadVars>>

\* the decoder of the clip loaded through the window, and its guards
guardVars == <<external_mutex, mutex_owner, decoding, decodes_left,
               decode_raised>>

\* the window's audio player
syncVars == <<audio_playing, audio_ms, sync_call>>

\* the two workers' run() methods
workerVars == <<wk_thumb, wk_wave>>

\* the window's own fields
winVars == <<resume_after_drag, was_playing_before_thumbs, audio_local,
             dragging, paused_by_thumbs, thumbs_busy, win_call>>

\* what the generation results did to the display
histVars == <<applied, shown_before>>

\* the scrub bar's resize debounce
resizeVars == <<resize_timer, resize_age, resize_count>>

\* the scrub bar's slider under the mouse
scrubVars == <<slider_down, tl_signals>>

\* one sampling of a ThumbnailWorker; what the scrub bar told its listeners
extraVars == <<sample_run, in_out_emitted>>

auxVars == <<histVars, resizeVars, scrubVars, formatted, extraVars>>

vars == <<ctlVars, tlVars, genVars, guardVars, syncVars, workerVars, winVars,
          auxVars>>

\* default of the constructor's sync_threshold_frames
sync_threshold_frames == 2

PlaybackState0 ==
    [playing |-> FALSE, current_frame |-> 0, total_frames |-> 0,
     duration |-> 0, fps |-> 0]

\* "fps or 24.0"
FpsOr24(fps) == IF fps = 0 THEN 24 ELSE fps

----------------------------------------------------------------------------
(***************************************************************************)
(* The controller's methods, as functions of a controller value            *)
(*   c = [adapter, st, timer, start, sig, exc]                             *)
(* where sig collects the signals emitted and exc is TRUE once an          *)
(* exception is propagating.                                               *)
(***************************************************************************)
Ctl ==
    [adapter |-> clip_adapter, st |-> state, timer |-> timer_active,
     start |-> play_start_time, sig |-> <<>>, exc |-> FALSE]

Emit(c, s) == [c EXCEPT !.sig = Append(@, s)]

FrameReady(t) == [sig |-> "frameReady", v |-> t]
PositionChanged(t) == [sig |-> "positionChanged", v |-> t]
StateChanged(s) == [sig |-> "stateChanged", v |-> s]
ClipLoaded(d) == [sig |-> "clipLoaded", v |-> d]

position(c) ==
    IF c.adapter = None \/ c.st.total_frames <= 0 THEN 0
    ELSE (c.st.current_frame * TimeRes) \div FpsOr24(c.st.fps)

\* VideoPlaybackController.position()
Position == position(Ctl)

\* now minus current_frame / fps, after play()
PlayReference == <<now - (state'.current_frame * TimeRes) \div state'.fps>>

\* ok: whether ClipAdapter.get_frame returns (TRUE) or raises (FALSE)
emit_current_frame(c, ok) ==
    IF c.adapter = None THEN c
    ELSE IF ok THEN Emit(c, FrameReady(position(c)))
    ELSE [c EXCEPT !.exc = TRUE]

SeekFrameIndexNoClamp(t, fps, total_frames) ==
    Max(0, Trunc(t * fps, TimeRes))

SeekFrameIndex(t, fps, total_frames) ==
    Max(0, Min(Trunc(t * fps, TimeRes), total_frames - 1))

seek(c, t, emit_frame, ok) ==
    IF c.adapter = None THEN c
    ELSE LET fps == FpsOr24(c.st.fps)
             c1 == [c EXCEPT !.st.current_frame =
                        SeekFrameIndex(t, fps, c.st.total_frames)]
             c2 == IF emit_frame THEN emit_current_frame(c1, ok) ELSE c1
         IN  IF c2.exc THEN c2 ELSE Emit(c2, PositionChanged(position(c2)))

pause(c) ==
    Emit([c EXCEPT !.timer = FALSE, !.st.playing = FALSE],
         StateChanged("paused"))

stop(c, ok) ==
    LET c1 == seek(pause(c), 0, TRUE, ok)
    IN  IF c1.exc THEN c1 ELSE Emit(c1, StateChanged("stopped"))

TotalFramesTrunc(fps, duration) ==
    IF duration > 0 THEN Trunc(fps * duration, TimeRes) ELSE 0

TotalFrames(fps, duration) ==
    IF duration > 0 THEN Round(fps * duration, TimeRes) ELSE 0

load(c, clip, ok) ==
    LET fps == FpsOr24(AdapterFps(clip))
        duration == AdapterDuration(clip)
        c1 == [c EXCEPT !.adapter = clip,
                        !.st = [playing |-> FALSE, current_frame |-> 0,
                                total_frames |-> TotalFrames(fps, duration),
                                duration |-> duration, fps |-> fps]]
        c2 == Emit(Emit(c1, ClipLoaded(duration)), StateChanged("stopped"))
    IN  seek(c2, 0, TRUE, ok)

playNoWrap(c, t) ==
    IF c.adapter = None THEN c
    ELSE LET c2 == IF ~c.timer
                   THEN [c EXCEPT
                           !.start = <<t - (c.st.current_frame * TimeRes)
                                           \div FpsOr24(c.st.fps)>>,
                           !.timer = TRUE]
                   ELSE c
         IN  Emit([c2 EXCEPT !.st.playing = TRUE], StateChanged("playing"))

play(c, t) ==
    IF c.adapter = None THEN c
    ELSE LET c1 == IF c.st.current_frame >= c.st.total_frames - 1
                   THEN [c EXCEPT !.st.current_frame = 0] ELSE c
             c2 == IF ~c1.timer
                   THEN [c1 EXCEPT
                           !.start = <<t - (c1.st.current_frame * TimeRes)
                                            \div FpsOr24(c1.st.fps)>>,
                           !.timer = TRUE]
                   ELSE c1
         IN  Emit([c2 EXCEPT !.st.playing = TRUE], StateChanged("playing"))

\* desired = int(elapsed * fps)
Desired(c, t) == Trunc((t - c.start[1]) * FpsOr24(c.st.fps), TimeRes)

TargetIndexAlwaysDesired(c, t, skip) ==
    LET cur == c.st.current_frame
    IN  IF c.start = NoTime THEN cur + 1
        ELSE IF skip THEN Desired(c, t)
             ELSE IF Desired(c, t) - cur > sync_threshold_frames
                  THEN Desired(c, t) ELSE cur + 1

TargetIndex(c, t, skip) ==
    LET cur == c.st.current_frame
    IN  IF c.start = NoTime THEN cur + 1
        ELSE IF skip
             THEN IF Desired(c, t) > cur THEN Desired(c, t) ELSE cur + 1
             ELSE IF Desired(c, t) - cur > sync_threshold_frames
                  THEN Desired(c, t) ELSE cur + 1

ReachedEndOffByOne(target, total_frames) == target > total_frames

\* "if target_index >= self._state.total_frames"
ReachedEnd(target, total_frames) == target >= total_frames

\* ok1, ok2: the outcomes of the first and the second get_frame of the tick
tick(c, t, skip, ok1, ok2) ==
    IF c.adapter = None THEN [c EXCEPT !.timer = FALSE]
    ELSE LET target == TargetIndex(c, t, skip)
             advance(d, idx, ok) ==
                 LET d1 == emit_current_frame(
                               [d EXCEPT !.st.current_frame = idx], ok)
                 IN  IF d1.exc THEN d1
                     ELSE Emit(d1, PositionChanged(position(d1)))
         IN  IF ReachedEnd(target, c.st.total_frames)
             THEN LET s1 == stop(c, ok1)
                  IN  IF ~s1.exc THEN s1
                      ELSE \* "except Exception": fallback linear advance
                           LET f == [s1 EXCEPT !.exc = FALSE]
                               next_index == f.st.current_frame + 1
                           IN  IF next_index >= f.st.total_frames
                               THEN stop(f, ok2)
                               ELSE advance(f, next_index, ok2)
             ELSE advance(c, target, ok1)

----------------------------------------------------------------------------
LastState(c, prev) ==
    LET idx == {i \in 1..Len(c.sig) : c.sig[i].sig = "stateChanged"}
    IN  IF idx = {} THEN prev
        ELSE c.sig[CHOOSE i \in idx : \A j \in idx : j <= i].v

\* the controller's variables after a handler that produced c
Commit(c, what) ==
    /\ clip_adapter' = c.adapter
    /\ state' = c.st
    /\ timer_active' = c.timer
    /\ play_start_time' = c.start
    /\ signals' = c.sig
    /\ last_state' = LastState(c, last_state)
    /\ raised' = c.exc
    /\ call' = what

\* a worker object before its thread has started run()
WorkerIdle ==
    [pc |-> "idle", clip |-> None, k |-> 0, n |-> 0, images |-> 0,
     decodes |-> 0, interrupted |-> FALSE, emitted |-> "none"]

Init ==
    /\ clip_adapter = None
    /\ state = PlaybackState0
    /\ timer_active = FALSE
    /\ play_start_time = NoTime
    /\ frame_skip_enabled \in BOOLEAN
    /\ now = 0
    /\ signals = <<>>
    /\ last_state = None
    /\ call = [op |-> "init"]
    /\ raised = FALSE
    /\ tl_duration = 0
    /\ in_point = NoTime
    /\ out_point = NoTime
    /\ slider_value = 0
    /\ tl_call = [op |-> "init"]
    /\ tl_clip = None
    /\ thumb_gen_id = 0
    /\ wave_gen_id = 0
    /\ thumb_jobs = {}
    /\ wave_jobs = {}
    /\ thumb_results = {}
    /\ wave_results = {}
    /\ strip = [pixmaps |-> <<>>, positions |-> <<>>, duration |-> 0,
                visible |-> FALSE]
    /\ waveform = [amps |-> <<>>, duration |-> 0, visible |-> FALSE]
    /\ external_mutex = None
    /\ mutex_owner = [adapter |-> None, timeline |-> None]
    /\ decoding = {}
    /\ decodes_left = [thumb |-> 0, wave |-> 0]
    /\ decode_raised = {}
    /\ audio_playing = FALSE
    /\ audio_ms = 0
    /\ sync_call = [op |-> "init"]
    /\ wk_thumb = WorkerIdle
    /\ wk_wave = WorkerIdle
    /\ resume_after_drag = FALSE
    /\ was_playing_before_thumbs = FALSE
    /\ audio_local = FALSE
    /\ dragging = FALSE
    /\ paused_by_thumbs = FALSE
    /\ thumbs_busy = FALSE
    /\ win_call = [op |-> "init", cmds |-> <<>>]
    /\ applied = [thumb |-> <<>>, wave |-> <<>>]
    /\ shown_before = [thumb |-> strip, wave |-> waveform]
    /\ resize_timer = NoTime
    /\ resize_age = 0
    /\ resize_count = 0
    /\ slider_down = FALSE
    /\ tl_signals = <<>>
    /\ formatted = [seconds |-> 0, text |-> <<>>]
    /\ sample_run = [duration |-> 0, max_thumbs |-> 0, width_hint |-> 0,
                     step |-> 1, times |-> <<>>]
    /\ in_out_emitted = <<NoTime, NoTime>>
    /\ pending_thread = <<>>
    /\ threads_done = {}
    /\ tl_busy = <<>>

Load ==
    \E clip \in Clips, ok \in BOOLEAN :
        /\ Commit(load(Ctl, clip, ok), [op |-> "load"])
        /\ UNCHANGED <<frame_skip_enabled, now, tlVars, genVars, guardVars, syncVars, workerVars, winVars, auxVars>>

Play ==
    /\ Commit(play(Ctl, now), [op |-> "play"])
    /\ UNCHANGED <<frame_skip_enabled, now, tlVars, genVars, guardVars, syncVars, workerVars, winVars, auxVars>>

Pause ==
    /\ Commit(pause(Ctl), [op |-> "pause"])
    /\ UNCHANGED <<frame_skip_enabled, now, tlVars, genVars, guardVars, syncVars, workerVars, winVars, auxVars>>

Stop ==
    \E ok \in BOOLEAN :
        /\ Commit(stop(Ctl, ok), [op |-> "stop"])
        /\ UNCHANGED <<frame_skip_enabled, now, tlVars, genVars, guardVars, syncVars, workerVars, winVars, auxVars>>

Seek ==
    \E t \in SeekTimes, emit_frame \in BOOLEAN, ok \in BOOLEAN :
        /\ Commit(seek(Ctl, t, emit_frame, ok),
                  [op |-> "seek", t |-> t, at |-> now])
        /\ UNCHANGED <<frame_skip_enabled, now, tlVars, genVars, guardVars, syncVars, workerVars, winVars, auxVars>>

\* QTimer.timeout -> _tick, only while the timer is active
Tick ==
    /\ timer_active
    /\ \E ok1 \in BOOLEAN, ok2 \in BOOLEAN :
           Commit(tick(Ctl, now, frame_skip_enabled, ok1, ok2),
                  [op |-> "tick"])
    /\ UNCHANGED <<frame_skip_enabled, now, tlVars, genVars, guardVars, syncVars, workerVars, winVars, auxVars>>

SetFrameSkipping ==
    \E enabled \in BOOLEAN :
        /\ frame_skip_enabled' = enabled
        /\ frame_skip_enabled # enabled
        /\ UNCHANGED <<clip_adapter, state, timer_active, play_start_time,
                       now, signals, last_state, call, raised, tlVars, genVars, guardVars, syncVars, workerVars, winVars, auxVars>>

\* the wall clock advances between handlers
Advance ==
    \E d \in Delays :
        /\ timer_active
        /\ now + d <= MaxNow
        /\ now' = now + d
        /\ UNCHANGED <<clip_adapter, state, timer_active, play_start_time,
                       frame_skip_enabled, signals, last_state, call, raised,
                       tlVars, genVars, guardVars, syncVars, workerVars, winVars, auxVars>>

Next ==
    \/ Load
    \/ Play
    \/ Pause
    \/ Stop
    \/ Seek
    \/ Tick
    \/ SetFrameSkipping
    \/ Advance

Spec == Init /\ [][Next]_vars

----------------------------------------------------------------------------
(***************************************************************************)
(* TimelineWidget: position and in/out markers.  A marker or a position   *)
(* is held in 1/slider_maximum of a time unit, so that                     *)
(* (value / maximum) * duration is the integer value * duration.           *)
(***************************************************************************)
\* self.setRange(0, 1000)
slider_maximum == 1000

\* durations handed to setDuration and times handed to setPosition
TlDurations == {-3, 0, 10, 25, 40}
TlPositions == {-2, 0, 5, 10, 30}

\* TimelineWidget.currentPosition()
currentPosition ==
    IF tl_duration <= 0 THEN 0 ELSE slider_value * tl_duration

\* setDuration drops a marker that lies beyond the new duration
MarkerWithin(m, duration) ==
    IF m # NoTime /\ m[1] > duration * slider_maximum THEN NoTime ELSE m

\* the slider value setPosition(t) sets: int(frac * maximum)
SliderValueFor(t, duration) ==
    LET tc == Max(0, Min(t, duration))
    IN  Trunc(tc * slider_maximum, duration)

OutAfterSetInKeep(out, pos) == out

\* setInPoint: "if self._out_point is not None and self._out_point < self._in_point"
OutAfterSetIn(out, pos) ==
    IF out # NoTime /\ out[1] < pos THEN NoTime ELSE out

InAfterSetOutKeep(inp, pos) == inp

\* setOutPoint: "if self._in_point is not None and self._out_point < self._in_point"
InAfterSetOut(inp, pos) ==
    IF inp # NoTime /\ pos < inp[1] THEN NoTime ELSE inp

setDurationLater(duration) == UNCHANGED <<tl_duration, in_point, out_point>>

\* the effect of setDuration(duration) on the widget's own fields
setDuration(duration) ==
    LET d == Max(0, duration)
    IN  /\ tl_duration' = d
        /\ in_point' = MarkerWithin(in_point, d)
        /\ out_point' = MarkerWithin(out_point, d)

SetDuration ==
    \E d \in TlDurations :
        /\ setDuration(d)
        /\ tl_call' = [op |-> "setDuration"]
        /\ UNCHANGED <<slider_value, ctlVars, genVars, guardVars, syncVars, workerVars, winVars, auxVars>>

SetPosition ==
    \E t \in TlPositions :
        /\ tl_duration > 0
        /\ slider_value' = IF slider_down THEN slider_value
                           ELSE SliderValueFor(t, tl_duration)
        /\ tl_call' = [op |-> "setPosition"]
        /\ UNCHANGED <<tl_duration, in_point, out_point, ctlVars, genVars, guardVars, syncVars, workerVars, winVars, auxVars>>

\* what inOut() returns after the step, which the four marker methods emit
inOutAfter == <<in_point', out_point'>>

SetInPoint ==
    /\ tl_duration > 0
    /\ in_point' = <<currentPosition>>
    /\ out_point' = OutAfterSetIn(out_point, currentPosition)
    /\ tl_call' = [op |-> "setInPoint",
                    cleared |-> out_point # NoTime /\ out_point' = NoTime]
    /\ UNCHANGED <<tl_duration, slider_value, ctlVars, genVars, guardVars, syncVars, workerVars, winVars, histVars, resizeVars, scrubVars, formatted, sample_run>>
    /\ in_out_emitted' = inOutAfter

ClearInPoint ==
    /\ in_point' = NoTime
    /\ tl_call' = [op |-> "clearInPoint"]
    /\ UNCHANGED <<tl_duration, out_point, slider_value, ctlVars, genVars, guardVars, syncVars, workerVars, winVars, histVars, resizeVars, scrubVars, formatted, sample_run>>
    /\ in_out_emitted' = inOutAfter

SetOutPoint ==
    /\ tl_duration > 0
    /\ out_point' = <<currentPosition>>
    /\ in_point' = InAfterSetOut(in_point, currentPosition)
    /\ tl_call' = [op |-> "setOutPoint",
                    cleared |-> in_point # NoTime /\ in_point' = NoTime]
    /\ UNCHANGED <<tl_duration, slider_value, ctlVars, genVars, guardVars, syncVars, workerVars, winVars, histVars, resizeVars, scrubVars, formatted, sample_run>>
    /\ in_out_emitted' = inOutAfter

ClearOutPoint ==
    /\ out_point' = NoTime
    /\ tl_call' = [op |-> "clearOutPoint"]
    /\ UNCHANGED <<tl_duration, in_point, slider_value, ctlVars, genVars, guardVars, syncVars, workerVars, winVars, histVars, resizeVars, scrubVars, formatted, sample_run>>
    /\ in_out_emitted' = inOutAfter

TimelineNext ==
    \/ SetDuration
    \/ SetPosition
    \/ SetInPoint
    \/ ClearInPoint
    \/ SetOutPoint
    \/ ClearOutPoint

TimelineSpec == Init /\ [][TimelineNext]_vars

C5_MarkerInvariant ==
    /\ (in_point # NoTime /\ out_point # NoTime) => in_point[1] <= out_point[1]
    /\ tl_call.op = "setInPoint" =>
          /\ in_point = <<currentPosition>>
          /\ out_point # NoTime => out_point[1] >= currentPosition
    /\ tl_call.op = "setOutPoint" =>
          /\ out_point = <<currentPosition>>
          /\ in_point # NoTime => in_point[1] <= currentPosition

C5_MarkerSteps ==
    [][/\ tl_call'.op = "setInPoint" =>
            out_point' = IF out_point # NoTime /\ out_point[1] < in_point'[1]
                         THEN NoTime ELSE out_point
       /\ tl_call'.op = "setOutPoint" =>
            in_point' = IF in_point # NoTime /\ out_point'[1] < in_point[1]
                        THEN NoTime ELSE in_point
       /\ tl_call'.op = "clearInPoint" =>
            in_point' = NoTime /\ out_point' = out_point
       /\ tl_call'.op = "clearOutPoint" =>
            out_point' = NoTime /\ in_point' = in_point]_vars

\* C5: whenever both markers are present in <= out; setInPoint/setOutPoint
\* put the new marker at the current position and clear the other marker
\* exactly when it would be on the wrong side (never swapping the two);
\* clearing one marker leaves the other unchanged.
C5_Markers == []C5_MarkerInvariant /\ C5_MarkerSteps

\* an out point was set before the in point, which that set cleared
C5_Witness ==
    /\ tl_call.op = "setOutPoint"
    /\ tl_call.cleared
    /\ in_point = NoTime
    /\ out_point # NoTime
    /\ out_point[1] < tl_duration * slider_maximum

----------------------------------------------------------------------------
(***************************************************************************)
(* TimelineWidget: background thumbnail and waveform generation.           *)
(* A worker's run() is one step that leaves the signal it emits in the     *)
(* queue of the GUI thread; the GUI thread takes queued signals of         *)
(* different workers in any order.                                         *)
(***************************************************************************)
\* the width self.width() has when a generation starts
Widths == {640}

\* the clips handed to setMedia: with audio, without audio, of no duration
GenClips == {"short", "slow", "empty"}

\* setMedia's default max_thumbs
max_thumbs_default == 12

ClipDuration(clip) == ClipTable[clip].duration
ClipHasAudio(clip) == ClipTable[clip].audio

\* ThumbnailWorker.run: the number of samples
ThumbCount(max_thumbs, width_hint) ==
    IF width_hint > 0
    THEN Max(1, Min(Max(max_thumbs, Max(3, width_hint \div 100)), 48))
    ELSE Max(1, max_thumbs)

\* the k-th sample time is k * duration / n; it is held as k * duration
ThumbTimes(duration, n) == [k \in 1..n |-> (k - 1) * duration]

\* the frames whose decode may raise in one run: none, the first, or all
DecodeFailures(n) == {{}, {1}, 1..n}

\* the images of a run: the frames decoded at the times that did not raise
RECURSIVE ThumbImages(_, _, _, _)
ThumbImages(clip, times, bad, k) ==
    IF k > Len(times) THEN <<>>
    ELSE (IF k \in bad THEN <<>> ELSE <<[clip |-> clip, t |-> times[k]]>>)
         \o ThumbImages(clip, times, bad, k + 1)

\* what ThumbnailWorker.run emits for a job: "none" when it saw the
\* interruption request at one of its checks
ThumbnailOutcomes(job) ==
    LET duration == ClipDuration(job.clip)
        times == ThumbTimes(duration, ThumbCount(max_thumbs_default, job.width))
    IN  IF duration <= 0
        THEN {[kind |-> "failed", gen |-> job.gen,
               reason |-> "non-positive duration"]}
        ELSE (IF job.interrupted THEN {[kind |-> "none", gen |-> job.gen]} ELSE {})
             \cup {[kind |-> "finished", gen |-> job.gen,
                    images |-> ThumbImages(job.clip, times, bad, 1),
                    times |-> times, duration |-> duration]
                   : bad \in DecodeFailures(Len(times))}

\* what WaveformWorker.run emits for a job; it never looks at the
\* interruption request
WaveformOutcomes(job) ==
    LET duration == ClipDuration(job.clip)
    IN  IF duration <= 0 \/ ~ClipHasAudio(job.clip)
        THEN {[kind |-> "failed", gen |-> job.gen, reason |-> "no audio"]}
        ELSE {[kind |-> "failed", gen |-> job.gen, reason |-> "audio err"],
              [kind |-> "failed", gen |-> job.gen, reason |-> "empty audio"],
              [kind |-> "finished", gen |-> job.gen,
               amps |-> <<[clip |-> job.clip, width |-> job.width]>>,
               duration |-> duration]}

InterruptedNone(jobs, latest) == jobs

\* requestInterruption() on the thread of the latest job, if it still runs
Interrupted(jobs, latest) ==
    {[j EXCEPT !.interrupted = @ \/ j.gen = latest] : j \in jobs}

\* _startThumbnailGeneration and _startWaveformGeneration for clip
StartGenerations(clip, width) ==
    /\ thumb_gen_id' = thumb_gen_id + 1
    /\ thumb_jobs' = Interrupted(thumb_jobs, thumb_gen_id) \cup
           {[gen |-> thumb_gen_id + 1, clip |-> clip, width |-> width,
             interrupted |-> FALSE]}
    /\ wave_gen_id' = wave_gen_id + 1
    /\ wave_jobs' = Interrupted(wave_jobs, wave_gen_id) \cup
           {[gen |-> wave_gen_id + 1, clip |-> clip, width |-> width,
             interrupted |-> FALSE]}
    /\ shown_before' = [thumb |-> strip, wave |-> waveform]
    /\ tl_busy' = <<TRUE>>
    /\ pending_thread' = <<thumb_gen_id + 1>>
    /\ UNCHANGED threads_done

IsStaleNever(gen, current) == FALSE

\* "if gen_id != self._thumb_gen_id: return  # stale"
IsStale(gen, current) == gen # current

SetMedia ==
    \E clip \in GenClips, width \in Widths :
        /\ thumb_gen_id < MaxGen
        /\ tl_clip' = clip
        /\ setDuration(ClipDuration(clip))
        /\ StartGenerations(clip, width)
        /\ tl_call' = [op |-> "setMedia"]
        /\ UNCHANGED <<slider_value, thumb_results, wave_results, strip,
                       waveform, ctlVars, guardVars, syncVars, workerVars,
                       winVars, applied, resizeVars, scrubVars, formatted, extraVars>>

\* the body of _regenerateThumbnails: "if self._clip is None: return"
regenerateThumbnails(width) ==
    /\ IF tl_clip = None
       THEN UNCHANGED <<thumb_gen_id, wave_gen_id, thumb_jobs, wave_jobs,
                        shown_before, threadVars>>
       ELSE StartGenerations(tl_clip, width)
    /\ tl_call' = [op |-> "_regenerateThumbnails"]
    /\ UNCHANGED <<tl_duration, in_point, out_point, slider_value, tl_clip,
                   thumb_results, wave_results, strip, waveform, applied>>

\* _regenerateThumbnails, the slot of the resize timer, called at any time
RegenerateThumbnails ==
    \E width \in Widths :
        /\ thumb_gen_id < MaxGen
        /\ regenerateThumbnails(width)
        /\ UNCHANGED <<ctlVars, guardVars, syncVars, workerVars, winVars,
                       resizeVars, scrubVars, formatted, extraVars>>

ThumbnailWorkerRun ==
    \E job \in thumb_jobs :
        \E out \in ThumbnailOutcomes(job) :
            /\ thumb_jobs' = thumb_jobs \ {job}
            /\ thumb_results' =
                   IF out.kind = "none" THEN thumb_results
                   ELSE thumb_results \cup {out}
            /\ threads_done' = threads_done \cup {job.gen}
            /\ UNCHANGED <<tlVars, tl_clip, thumb_gen_id, wave_gen_id, wave_jobs,
                           wave_results, strip, waveform, pending_thread, tl_busy,
                           ctlVars, guardVars, syncVars, workerVars, winVars, auxVars>>

WaveformWorkerRun ==
    \E job \in wave_jobs :
        \E out \in WaveformOutcomes(job) :
            /\ wave_jobs' = wave_jobs \ {job}
            /\ wave_results' = wave_results \cup {out}
            /\ UNCHANGED <<tlVars, tl_clip, thumb_gen_id, wave_gen_id, thumb_jobs,
                           thumb_results, strip, waveform, threadVars, ctlVars, guardVars, syncVars, workerVars, winVars, auxVars>>

\* _onThumbsReady / _onThumbsFailed for a queued signal
OnThumbs ==
    \E msg \in thumb_results :
        /\ thumb_results' = thumb_results \ {msg}
        /\ tl_call' = [op |-> "_onThumbs", msg |-> msg]
        /\ applied' = IF IsStale(msg.gen, thumb_gen_id) THEN applied
                      ELSE [applied EXCEPT !.thumb = Append(@, msg.gen)]
        /\ IF IsStale(msg.gen, thumb_gen_id)
           THEN UNCHANGED <<tl_duration, in_point, out_point, strip>>
           ELSE IF msg.kind = "finished"
           THEN /\ setDuration(msg.duration)
                /\ strip' = IF msg.images # <<>>
                            THEN [pixmaps |-> msg.images, positions |-> msg.times,
                                  duration |-> msg.duration, visible |-> TRUE]
                            ELSE [strip EXCEPT !.visible = FALSE]
           ELSE /\ strip' = [strip EXCEPT !.visible = FALSE]
                /\ UNCHANGED <<tl_duration, in_point, out_point>>
        /\ UNCHANGED <<slider_value, tl_clip, thumb_gen_id, wave_gen_id,
                       thumb_jobs, wave_jobs, wave_results, waveform,
                       threadVars, ctlVars,
                       guardVars, syncVars, workerVars, winVars, shown_before,
                       resizeVars, scrubVars, formatted, extraVars>>

\* _waveformReady / _waveformFailed for a queued signal
OnWaveform ==
    \E msg \in wave_results :
        /\ wave_results' = wave_results \ {msg}
        /\ tl_call' = [op |-> "_onWaveform", msg |-> msg]
        /\ applied' = IF IsStale(msg.gen, wave_gen_id) THEN applied
                      ELSE [applied EXCEPT !.wave = Append(@, msg.gen)]
        /\ IF IsStale(msg.gen, wave_gen_id)
           THEN UNCHANGED waveform
           ELSE IF msg.kind = "finished" /\ msg.amps # <<>>
           THEN waveform' = [amps |-> msg.amps, duration |-> msg.duration,
                             visible |-> TRUE]
           ELSE waveform' = [waveform EXCEPT !.visible = FALSE]
        /\ UNCHANGED <<tl_duration, in_point, out_point, slider_value, tl_clip,
                       thumb_gen_id, wave_gen_id, thumb_jobs, wave_jobs,
                       thumb_results, strip, threadVars, ctlVars, guardVars,
                       syncVars,
                       workerVars, winVars, shown_before, resizeVars, scrubVars,
                       formatted, extraVars>>

\* thread.finished -> _clearThread(thread) for a thread whose worker has
\* returned: every thread is told to quit, by its worker's finished or
\* failed or by the start that superseded it
ClearThread ==
    \E gen \in threads_done :
        /\ threads_done' = threads_done \ {gen}
        /\ pending_thread' = IF pending_thread = <<gen>> THEN <<>>
                             ELSE pending_thread
        /\ tl_busy' = IF pending_thread = <<gen>> THEN <<FALSE>> ELSE tl_busy
        /\ tl_call' = [op |-> "_clearThread", thread |-> gen,
                        emitted |-> pending_thread = <<gen>>]
        /\ UNCHANGED <<tl_duration, in_point, out_point, slider_value, tl_clip,
                       thumb_gen_id, wave_gen_id, thumb_jobs, wave_jobs,
                       thumb_results, wave_results, strip, waveform, ctlVars,
                       guardVars, syncVars, workerVars, winVars, auxVars>>

GenNext ==
    \/ SetMedia
    \/ RegenerateThumbnails
    \/ ThumbnailWorkerRun
    \/ WaveformWorkerRun
    \/ OnThumbs
    \/ OnWaveform

GenSpec == Init /\ [][GenNext]_vars

----------------------------------------------------------------------------
(***************************************************************************)
(* TimelineWidget: the resize debounce.  _resize_timer is a single-shot    *)
(* QTimer whose timeout runs _regenerateThumbnails; times are in ms.       *)
(***************************************************************************)
\* self._resize_timer.start(300)
resize_debounce_ms == 300

\* the time that passes between two events of the widget, in ms
ResizeGaps == {100, 250}

TimerStartIfIdle(timer, ms) == IF timer = NoTime THEN <<ms>> ELSE timer

\* QTimer.start(ms): a timer that is already running is restarted
TimerStart(timer, ms) == <<ms>>

\* TimelineWidget.resizeEvent
ResizeEvent ==
    /\ resize_count < MaxResizes
    /\ IF tl_clip = None
       THEN UNCHANGED <<resize_timer, resize_age>>
       ELSE /\ resize_timer' = TimerStart(resize_timer, resize_debounce_ms)
            /\ resize_age' = 0
    /\ resize_count' = IF resize_timer = NoTime THEN 1 ELSE resize_count + 1
    /\ tl_call' = [op |-> "resizeEvent"]
    /\ UNCHANGED <<tl_duration, in_point, out_point, slider_value, genVars,
                   ctlVars, guardVars, syncVars, workerVars, winVars, histVars,
                   scrubVars, formatted, extraVars>>

\* time passes while the timer runs, up to its expiry
ResizeElapse ==
    \E d \in ResizeGaps :
        /\ resize_timer # NoTime
        /\ d <= resize_timer[1]
        /\ resize_timer' = <<resize_timer[1] - d>>
        /\ resize_age' = resize_age + d
        /\ UNCHANGED <<resize_count, tlVars, genVars, ctlVars, guardVars,
                       syncVars, workerVars, winVars, histVars, scrubVars,
                       formatted, extraVars>>

\* the expiry of the single-shot timer: timeout -> _regenerateThumbnails
ResizeTimeout ==
    \E width \in Widths :
        /\ resize_timer = <<0>>
        /\ thumb_gen_id < MaxGen
        /\ resize_timer' = NoTime
        /\ regenerateThumbnails(width)
        /\ UNCHANGED <<resize_age, resize_count, ctlVars, guardVars, syncVars,
                       workerVars, winVars, scrubVars, formatted, extraVars>>

ResizeNext ==
    \/ SetMedia
    \/ ResizeEvent
    \/ ResizeElapse
    \/ ResizeTimeout

ResizeSpec == Init /\ [][ResizeNext]_vars

C24_TimerInvariant ==
    /\ tl_clip = None => resize_timer = NoTime
    /\ resize_timer # NoTime =>
           resize_age + resize_timer[1] = resize_debounce_ms

C24_ResizeSteps ==
    [][/\ ResizeEvent =>
            /\ UNCHANGED <<thumb_gen_id, wave_gen_id, thumb_jobs, wave_jobs>>
            /\ tl_clip = None => resize_timer' = NoTime
            /\ tl_clip # None => resize_timer' = <<resize_debounce_ms>>
       /\ ResizeTimeout =>
            /\ resize_age = resize_debounce_ms
            /\ resize_count >= 1
            /\ thumb_gen_id' = thumb_gen_id + 1
            /\ wave_gen_id' = wave_gen_id + 1
            /\ resize_timer' = NoTime
       /\ (thumb_gen_id' # thumb_gen_id \/ wave_gen_id' # wave_gen_id) =>
            SetMedia \/ ResizeTimeout]_vars

\* C24: a resize event starts no generation itself; with a clip attached
\* it (re)starts the 300 ms timer, so that the regeneration runs 300 ms
\* after the last resize of a burst and bumps each token once for the
\* whole burst; nothing but setMedia and that expiry bumps a token; with
\* no clip attached a resize starts no timer and no generation.
C24_ResizeDebounce == []C24_TimerInvariant /\ C24_ResizeSteps

\* a burst of three resizes after setMedia has been answered by one
\* regeneration: the tokens are 2, the timer is idle again
C24_Witness ==
    /\ tl_call.op = "_regenerateThumbnails"
    /\ resize_timer = NoTime
    /\ resize_count = 3
    /\ resize_age = resize_debounce_ms
    /\ thumb_gen_id = 2
    /\ wave_gen_id = 2

\* C4: delivering a finished or failed result whose token is not the current
\* token of its kind, at any time and in any order, leaves the thumbnails,
\* the waveform, their visibility and the scrub bar duration unchanged; a
\* finished result with the current token is what the widget then shows.
C4_StaleDiscard ==
    [][/\ (tl_call'.op = "_onThumbs" /\ tl_call' # tl_call) =>
            IF tl_call'.msg.gen # thumb_gen_id
            THEN UNCHANGED <<strip, waveform, tl_duration>>
            ELSE (tl_call'.msg.kind = "finished" /\ tl_call'.msg.images # <<>>)
                 => /\ strip'.pixmaps = tl_call'.msg.images
                    /\ strip'.visible
                    /\ tl_duration' = tl_call'.msg.duration
       /\ (tl_call'.op = "_onWaveform" /\ tl_call' # tl_call) =>
            IF tl_call'.msg.gen # wave_gen_id
            THEN UNCHANGED <<strip, waveform, tl_duration>>
            ELSE tl_call'.msg.kind = "finished"
                 => waveform'.amps = tl_call'.msg.amps /\ waveform'.visible
      ]_vars

\* the result of an older thumbnail generation arrived after the newer
\* generation's thumbnails were on display, and they still are
C4_Witness ==
    /\ tl_call.op = "_onThumbs"
    /\ tl_call.msg.kind = "finished"
    /\ tl_call.msg.gen < thumb_gen_id
    /\ tl_call.msg.images # <<>>
    /\ strip.visible
    /\ strip.pixmaps # tl_call.msg.images
    /\ strip.pixmaps[1].clip = tl_clip
    /\ tl_call.msg.images[1].clip # tl_clip

----------------------------------------------------------------------------
(***************************************************************************)
(* The decoder of a clip loaded through the window (MainWindow             *)
(* .loadMediaPath: controller.load(clip), then clip_scrub.setMedia(clip)) *)
(* and the threads that call into it: the GUI thread (the controller's    *)
(* ClipAdapter.get_frame) and the two worker threads.                      *)
(***************************************************************************)
\* ClipAdapter.__init__ attaches the adapter's own QMutex to the clip
AttachedByAdapter == "adapter"

\* TimelineWidget.setMedia: setattr(self._clip, "_external_mutex", self._clip_mutex)
AttachedBySetMedia(attached) == "timeline"

\* the guard a caller takes: the adapter its own mutex, a worker whatever
\* getattr(self._clip, "_external_mutex", None) gives it
GuardOf(thread) == IF thread = "gui" THEN "adapter" ELSE external_mutex

\* mutex.lock(), then the decode call begins
EnterDecoder(thread) ==
    LET m == GuardOf(thread)
    IN  /\ thread \notin decoding
        /\ IF m = None THEN UNCHANGED mutex_owner
           ELSE /\ mutex_owner[m] = None
                /\ mutex_owner' = [mutex_owner EXCEPT ![m] = thread]
        /\ decoding' = decoding \cup {thread}

LeaveDecoderNoFinally(thread, ok) ==
    /\ thread \in decoding
    /\ decoding' = decoding \ {thread}
    /\ mutex_owner' = [m \in DOMAIN mutex_owner |->
                          IF mutex_owner[m] = thread /\ ok THEN None
                          ELSE mutex_owner[m]]
    /\ decode_raised' = IF ok THEN decode_raised \ {thread}
                        ELSE decode_raised \cup {thread}

\* the decode call returns or raises, then "finally: mutex.unlock()"
LeaveDecoder(thread, ok) ==
    /\ thread \in decoding
    /\ decoding' = decoding \ {thread}
    /\ mutex_owner' = [m \in DOMAIN mutex_owner |->
                          IF mutex_owner[m] = thread THEN None ELSE mutex_owner[m]]
    /\ decode_raised' = IF ok THEN decode_raised \ {thread}
                        ELSE decode_raised \cup {thread}

\* loadMediaPath: a new clip object, its adapter, then setMedia, which starts
\* one thumbnail worker (one decode per sample) and one waveform worker
LoadMediaPath ==
    /\ external_mutex = None
    /\ external_mutex' = AttachedBySetMedia(AttachedByAdapter)
    /\ decodes_left' = [thumb |-> ThumbCount(max_thumbs_default, 640), wave |-> 1]
    /\ UNCHANGED <<mutex_owner, decoding, decode_raised, ctlVars, tlVars, genVars, syncVars, workerVars, winVars, auxVars>>

\* a tick or a seek of the controller reaches ClipAdapter.get_frame
GuiDecodeBegin ==
    /\ external_mutex # None
    /\ EnterDecoder("gui")
    /\ UNCHANGED <<external_mutex, decodes_left, decode_raised, ctlVars, tlVars,
                   genVars, syncVars, workerVars, winVars, auxVars>>

GuiDecodeEnd ==
    \E ok \in BOOLEAN :
        /\ LeaveDecoder("gui", ok)
        /\ UNCHANGED <<external_mutex, decodes_left, ctlVars, tlVars, genVars, syncVars, workerVars, winVars, auxVars>>

WorkerDecodeBegin ==
    \E w \in {"thumb", "wave"} :
        /\ decodes_left[w] > 0
        /\ EnterDecoder(w)
        /\ UNCHANGED <<external_mutex, decodes_left, decode_raised, ctlVars,
                       tlVars, genVars, syncVars, workerVars, winVars, auxVars>>

WorkerDecodeEnd ==
    \E w \in {"thumb", "wave"}, ok \in BOOLEAN :
        /\ LeaveDecoder(w, ok)
        /\ decodes_left' = [decodes_left EXCEPT ![w] = @ - 1]
        /\ UNCHANGED <<external_mutex, ctlVars, tlVars, genVars, syncVars, workerVars, winVars, auxVars>>

GuardNext ==
    \/ LoadMediaPath
    \/ GuiDecodeBegin
    \/ GuiDecodeEnd
    \/ WorkerDecodeBegin
    \/ WorkerDecodeEnd

GuardSpec == Init /\ [][GuardNext]_vars

\* C6 as stated: for a clip loaded through the window, never are two of the
\* playback decode, the thumbnail decode and the waveform extraction inside
\* the clip's decoder at once, all three being serialized by one guard.
C6_DecoderExclusive == Cardinality(decoding) <= 1

----------------------------------------------------------------------------
(***************************************************************************)
(* The window's audio player (QMediaPlayer) and the two handlers that      *)
(* drive it from the controller's signals.  Video times are in units of   *)
(* 1/TimeRes s, audio positions in milliseconds.                          *)
(***************************************************************************)
drift_threshold_ms == 160

\* positions the controller reports: frames 0, 3, 4, 5, 12, 24 of a 24 fps clip
VideoTimes == {0, 12, 16, 20, 48, 96}

\* how far the audio clock runs between two handlers
AudioSteps == {5, 6, 50}

\* int(t * 1000)
VideoMs(t) == Trunc(t * 1000, TimeRes)

ShouldCorrectAnyDrift(drift) == drift # 0

\* "if drift > 160"
ShouldCorrect(drift) == drift > drift_threshold_ms

\* MainWindow._onPlaybackState, for a local audio source
OnPlaybackState ==
    \E s \in {"playing", "paused", "stopped"}, t \in VideoTimes :
        /\ audio_playing' = (s = "playing")
        /\ audio_ms' = CASE s = "playing" -> VideoMs(t)
                         [] s = "stopped" -> 0
                         [] OTHER -> audio_ms
        /\ sync_call' = [op |-> "_onPlaybackState", state |-> s, t |-> t,
                         audio_before |-> audio_ms]
        /\ UNCHANGED <<ctlVars, tlVars, genVars, guardVars, workerVars, winVars, auxVars>>

\* MainWindow._maybeResyncAudio(t), the slot of positionChanged
MaybeResyncAudio ==
    \E t \in VideoTimes :
        /\ audio_ms' = IF audio_playing /\ ShouldCorrect(VideoMs(t) - audio_ms)
                       THEN VideoMs(t)
                       ELSE audio_ms
        /\ sync_call' = [op |-> "_maybeResyncAudio", t |-> t,
                         audio_before |-> audio_ms]
        /\ UNCHANGED <<audio_playing, ctlVars, tlVars, genVars, guardVars, workerVars, winVars, auxVars>>

\* the player's clock runs while it plays
AudioAdvance ==
    \E d \in AudioSteps :
        /\ audio_playing
        /\ audio_ms + d <= MaxAudioMs
        /\ audio_ms' = audio_ms + d
        /\ sync_call' = [op |-> "clock"]
        /\ UNCHANGED <<audio_playing, ctlVars, tlVars, genVars, guardVars, workerVars, winVars, auxVars>>

SyncNext ==
    \/ OnPlaybackState
    \/ MaybeResyncAudio
    \/ AudioAdvance

SyncSpec == Init /\ [][SyncNext]_vars

\* C7: a position update handled while audio plays sets the audio position to
\* the video position when audio is more than 160 ms behind, and leaves it
\* alone when audio is ahead or at most 160 ms behind; the handler never
\* decreases the audio position and does nothing when audio is not playing.
C7_DriftCorrection ==
    [][(sync_call'.op = "_maybeResyncAudio" /\ sync_call' # sync_call) =>
         LET video_ms == (sync_call'.t * 1000) \div TimeRes
         IN  /\ audio_playing' = audio_playing
             /\ audio_ms' >= audio_ms
             /\ (audio_playing /\ audio_ms + 160 < video_ms) => audio_ms' = video_ms
             /\ (audio_playing /\ audio_ms + 160 >= video_ms) => audio_ms' = audio_ms
             /\ ~audio_playing => audio_ms' = audio_ms]_vars

\* audio was more than 160 ms behind and has been moved up to the video
C7_Witness ==
    /\ sync_call.op = "_maybeResyncAudio"
    /\ audio_playing
    /\ sync_call.audio_before + 160 < audio_ms
    /\ audio_ms = (sync_call.t * 1000) \div TimeRes

----------------------------------------------------------------------------
(***************************************************************************)
(* One run() of each worker, step by step, with the interruption request   *)
(* that a newer generation's start makes on the thread of a job that is   *)
(* still running.                                                          *)
(***************************************************************************)
SeesInterruptionNever(requested) == FALSE

\* QThread.currentThread().isInterruptionRequested()
SeesInterruption(requested) == requested

WorkerStarted(clip) ==
    [pc |-> "begin", clip |-> clip, k |-> 0, n |-> 0, images |-> 0,
     decodes |-> 0, interrupted |-> FALSE, emitted |-> "none"]

WorkerRunning(w) == w.pc \notin {"idle", "returned"}

\* thread.start() of a thumbnail and of a waveform worker for clip
StartWorkers ==
    \E clip \in GenClips :
        /\ ~WorkerRunning(wk_thumb)
        /\ ~WorkerRunning(wk_wave)
        /\ wk_thumb' = WorkerStarted(clip)
        /\ wk_wave' = WorkerStarted(clip)
        /\ UNCHANGED <<ctlVars, tlVars, genVars, guardVars, syncVars, winVars, auxVars>>

\* requestInterruption() on a thread that isRunning()
RequestInterruption ==
    /\ \/ /\ WorkerRunning(wk_thumb)
          /\ ~wk_thumb.interrupted
          /\ wk_thumb' = [wk_thumb EXCEPT !.interrupted = TRUE]
          /\ UNCHANGED wk_wave
       \/ /\ WorkerRunning(wk_wave)
          /\ ~wk_wave.interrupted
          /\ wk_wave' = [wk_wave EXCEPT !.interrupted = TRUE]
          /\ UNCHANGED wk_thumb
    /\ UNCHANGED <<ctlVars, tlVars, genVars, guardVars, syncVars, winVars, auxVars>>

\* ThumbnailWorker.run up to the sample loop
ThumbBegin ==
    /\ wk_thumb.pc = "begin"
    /\ wk_thumb' =
           IF ClipDuration(wk_thumb.clip) <= 0
           THEN [wk_thumb EXCEPT !.pc = "returned", !.emitted = "failed"]
           ELSE [wk_thumb EXCEPT !.pc = "check",
                                 !.n = ThumbCount(max_thumbs_default, 640)]
    /\ UNCHANGED <<wk_wave, ctlVars, tlVars, genVars, guardVars, syncVars,
                   winVars, auxVars>>

\* the interruption check that precedes a sample
ThumbCheck ==
    /\ wk_thumb.pc = "check"
    /\ wk_thumb' =
           IF SeesInterruption(wk_thumb.interrupted)
           THEN [wk_thumb EXCEPT !.pc = "returned"]
           ELSE [wk_thumb EXCEPT !.pc = "decode"]
    /\ UNCHANGED <<wk_wave, ctlVars, tlVars, genVars, guardVars, syncVars,
                   winVars, auxVars>>

\* the decode of one sample ("except Exception: continue"), and
\* finished.emit after the last one
ThumbDecode ==
    \E ok \in BOOLEAN :
        /\ wk_thumb.pc = "decode"
        /\ LET last == wk_thumb.k + 1 = wk_thumb.n
           IN  wk_thumb' =
                   [wk_thumb EXCEPT
                      !.decodes = @ + 1,
                      !.images = IF ok THEN @ + 1 ELSE @,
                      !.k = @ + 1,
                      !.pc = IF last THEN "returned" ELSE "check",
                      !.emitted = IF last THEN "finished" ELSE @]
        /\ UNCHANGED <<wk_wave, ctlVars, tlVars, genVars, guardVars, syncVars,
                       winVars, auxVars>>

\* WaveformWorker.run up to the extraction
WaveBegin ==
    /\ wk_wave.pc = "begin"
    /\ wk_wave' =
           IF ClipDuration(wk_wave.clip) <= 0 \/ ~ClipHasAudio(wk_wave.clip)
           THEN [wk_wave EXCEPT !.pc = "returned", !.emitted = "failed"]
           ELSE [wk_wave EXCEPT !.pc = "decode"]
    /\ UNCHANGED <<wk_thumb, ctlVars, tlVars, genVars, guardVars, syncVars,
                   winVars, auxVars>>

\* to_soundarray and the envelope: finished, or failed ("empty audio",
\* "audio err"); no interruption check anywhere
WaveExtract ==
    \E out \in {"finished", "failed"} :
        /\ wk_wave.pc = "decode"
        /\ wk_wave' = [wk_wave EXCEPT !.pc = "returned", !.decodes = @ + 1,
                                      !.emitted = out]
        /\ UNCHANGED <<wk_thumb, ctlVars, tlVars, genVars, guardVars, syncVars,
                       winVars, auxVars>>

WorkerNext ==
    \/ StartWorkers
    \/ RequestInterruption
    \/ ThumbBegin
    \/ ThumbCheck
    \/ ThumbDecode
    \/ WaveBegin
    \/ WaveExtract

WorkerSpec == Init /\ [][WorkerNext]_vars

\* C19: a thumbnail job that reaches the check before a sample after its
\* interruption was requested makes no further decode call and returns
\* without having emitted finished or failed; a returned job does nothing more.
C19_ThumbCancellation ==
    [][/\ (wk_thumb.interrupted /\ wk_thumb.pc = "check"
           /\ wk_thumb' # wk_thumb) =>
              /\ wk_thumb'.pc = "returned"
              /\ wk_thumb'.emitted = "none"
              /\ wk_thumb'.decodes = wk_thumb.decodes
       /\ (wk_thumb.pc = "returned" /\ wk_thumb' # wk_thumb) =>
              wk_thumb'.pc = "begin"]_vars

\* a job interrupted after some samples has returned before the last one,
\* silently
C19_Witness ==
    /\ wk_thumb.pc = "returned"
    /\ wk_thumb.interrupted
    /\ wk_thumb.emitted = "none"
    /\ wk_thumb.decodes > 0
    /\ wk_thumb.k < wk_thumb.n

\* C20 as stated: a waveform job whose interruption was requested before it
\* completed returns having emitted neither finished nor failed.
C20_WaveCancellation ==
    (wk_wave.pc = "returned" /\ wk_wave.interrupted) => wk_wave.emitted = "none"

----------------------------------------------------------------------------
(***************************************************************************)
(* MainWindow: the handlers that couple the clip controller, the audio     *)
(* player and the scrubber.  The controller's signals reach the window's  *)
(* slots synchronously, in the order of emission.  An audio value is      *)
(*   a = [playing, ms, local, cmds]                                        *)
(* where cmds collects the calls made on the player.                       *)
(***************************************************************************)
\* the clips imported through the window
WinClips == {"short"}

\* the clock readings between two window handlers: one frame at 24 fps
WinDelays == {6}

\* the times a released slider asks for: inside the clip and at its end
CommitTimes == {10, 25}

Aud ==
    [playing |-> audio_playing, ms |-> audio_ms, local |-> audio_local,
     cmds |-> <<>>]

AudioCall(a, cmd) == [a EXCEPT !.cmds = Append(@, cmd)]

onPlaybackStateNoReset(a, s, pos) ==
    IF ~a.local THEN a
    ELSE IF s = "playing"
    THEN AudioCall(AudioCall([a EXCEPT !.ms = VideoMs(pos), !.playing = TRUE],
                             "setPosition"), "play")
    ELSE AudioCall([a EXCEPT !.playing = FALSE], "pause")

\* MainWindow._onPlaybackState(s) while the controller is at pos
onPlaybackState(a, s, pos) ==
    IF ~a.local THEN a
    ELSE IF s = "playing"
    THEN AudioCall(AudioCall([a EXCEPT !.ms = VideoMs(pos), !.playing = TRUE],
                             "setPosition"), "play")
    ELSE IF s = "paused"
    THEN AudioCall([a EXCEPT !.playing = FALSE], "pause")
    ELSE AudioCall(AudioCall([a EXCEPT !.playing = FALSE, !.ms = 0], "pause"),
                   "setPosition")

\* MainWindow._maybeResyncAudio(t)
maybeResyncAudio(a, t) ==
    IF a.playing /\ ShouldCorrect(VideoMs(t) - a.ms)
    THEN AudioCall([a EXCEPT !.ms = VideoMs(t)], "setPosition")
    ELSE a

\* the slots connected to stateChanged and positionChanged, run for the
\* signals sigs of one controller call that ends at position pos
RECURSIVE Deliver(_, _, _)
Deliver(a, sigs, pos) ==
    IF sigs = <<>> THEN a
    ELSE LET s == Head(sigs)
             a1 == IF s.sig = "stateChanged" THEN onPlaybackState(a, s.v, pos)
                   ELSE IF s.sig = "positionChanged"
                   THEN maybeResyncAudio(a, s.v)
                   ELSE a
         IN  Deliver(a1, Tail(sigs), pos)

\* the controller's and the player's variables after a handler: c is the
\* controller value it produced (called = FALSE: it made no controller call)
WinCommit(c, called, a, what) ==
    /\ IF called THEN Commit(c, [op |-> what.op])
       ELSE /\ UNCHANGED <<clip_adapter, state, timer_active, play_start_time,
                           last_state>>
            /\ signals' = <<>>
            /\ raised' = FALSE
            /\ call' = [op |-> what.op]
    /\ audio_playing' = a.playing
    /\ audio_ms' = a.ms
    /\ audio_local' = a.local
    /\ win_call' = [what EXCEPT !.cmds = a.cmds]

\* MainWindow.loadMediaPath: controller.load, then (unless it raised)
\* clip_scrub.setMedia, clip_scrub.setPosition(0.0), _loadAudio and
\* media_player.setPosition(0)
ImportMedia ==
    \E clip \in WinClips, ok \in BOOLEAN :
        LET c == load(Ctl, clip, ok)
            a1 == Deliver(Aud, c.sig, position(c))
            a2 == [playing |-> FALSE, ms |-> 0, local |-> TRUE,
                   cmds |-> a1.cmds \o <<"setSource", "setPosition",
                                          "setPosition">>]
        IN  /\ thumb_gen_id < MaxImports
            /\ WinCommit(c, TRUE, IF c.exc THEN a1 ELSE a2,
                         [op |-> "loadMediaPath", cmds |-> <<>>])
            /\ IF c.exc
               THEN /\ external_mutex' = AttachedByAdapter
                    /\ UNCHANGED <<tlVars, genVars, decodes_left, shown_before>>
               ELSE /\ tl_clip' = clip
                    /\ setDuration(ClipDuration(clip))
                    /\ StartGenerations(clip, 640)
                    /\ slider_value' = IF ClipDuration(clip) > 0 THEN 0
                                       ELSE slider_value
                    /\ tl_call' = [op |-> "setMedia"]
                    /\ external_mutex' = AttachedBySetMedia(AttachedByAdapter)
                    /\ decodes_left' =
                           [thumb |-> ThumbCount(max_thumbs_default, 640),
                            wave |-> 1]
                    /\ UNCHANGED <<thumb_results, wave_results, strip, waveform>>
            /\ paused_by_thumbs' = FALSE
            /\ UNCHANGED <<frame_skip_enabled, now, mutex_owner, decoding,
                           decode_raised, sync_call, workerVars,
                           resume_after_drag, was_playing_before_thumbs,
                           dragging, thumbs_busy, applied, resizeVars,
                           scrubVars, formatted, extraVars>>

\* ClipPreviewPanel._onPlayToggle
PlayToggle ==
    LET c == IF state.playing THEN pause(Ctl) ELSE play(Ctl, now)
    IN  /\ WinCommit(c, TRUE, Deliver(Aud, c.sig, position(c)),
                     [op |-> "_onPlayToggle", cmds |-> <<>>])
        /\ paused_by_thumbs' = FALSE
        /\ UNCHANGED <<frame_skip_enabled, now, tlVars, genVars, guardVars,
                       sync_call, workerVars, resume_after_drag,
                       was_playing_before_thumbs, dragging, thumbs_busy, auxVars>>

\* QTimer.timeout -> _tick, with the window's slots
WinTick ==
    /\ timer_active
    /\ \E ok1 \in BOOLEAN, ok2 \in BOOLEAN :
           LET c == tick(Ctl, now, frame_skip_enabled, ok1, ok2)
           IN  WinCommit(c, TRUE, Deliver(Aud, c.sig, position(c)),
                         [op |-> "_tick", cmds |-> <<>>])
    /\ UNCHANGED <<frame_skip_enabled, now, tlVars, genVars, guardVars,
                   sync_call, workerVars, resume_after_drag,
                   was_playing_before_thumbs, dragging, paused_by_thumbs,
                   thumbs_busy, auxVars>>

\* the wall clock and, while it plays, the audio clock advance
WinAdvance ==
    \E d \in WinDelays :
        /\ timer_active \/ audio_playing
        /\ now + d <= MaxNow
        /\ now' = now + d
        /\ audio_ms' = IF audio_playing THEN audio_ms + (d * 1000) \div TimeRes
                       ELSE audio_ms
        /\ UNCHANGED <<clip_adapter, state, timer_active, play_start_time,
                       frame_skip_enabled, signals, last_state, call, raised,
                       audio_playing, sync_call, tlVars, genVars, guardVars,
                       workerVars, winVars, auxVars>>

\* MainWindow._onScrubDragStarted
ScrubDragStarted ==
    LET c == IF state.playing THEN pause(Ctl) ELSE Ctl
        a1 == Deliver(Aud, c.sig, position(c))
        a2 == IF a1.playing
              THEN AudioCall([a1 EXCEPT !.playing = FALSE], "pause") ELSE a1
    IN  /\ ~dragging
        /\ dragging' = TRUE
        /\ resume_after_drag' = state.playing
        /\ WinCommit(c, state.playing, a2,
                     [op |-> "_onScrubDragStarted", cmds |-> <<>>])
        /\ UNCHANGED <<frame_skip_enabled, now, tlVars, genVars, guardVars,
                       sync_call, workerVars, was_playing_before_thumbs,
                       paused_by_thumbs, thumbs_busy, auxVars>>

\* MainWindow._onScrubDragEnded
ScrubDragEnded ==
    LET c == IF resume_after_drag THEN play(Ctl, now) ELSE Ctl
    IN  /\ dragging
        /\ dragging' = FALSE
        /\ WinCommit(c, resume_after_drag, Deliver(Aud, c.sig, position(c)),
                     [op |-> "_onScrubDragEnded", cmds |-> <<>>])
        /\ UNCHANGED <<frame_skip_enabled, now, tlVars, genVars, guardVars,
                       sync_call, workerVars, resume_after_drag,
                       was_playing_before_thumbs, paused_by_thumbs,
                       thumbs_busy, auxVars>>

\* MainWindow._commitScrubSeek(t) -> _commitSeek(t); self.clip is None
\* exactly when nothing was imported
CommitScrubSeek ==
    \E t \in CommitTimes, ok \in BOOLEAN :
        LET c == seek(Ctl, t, TRUE, ok)
            a1 == Deliver(Aud, c.sig, position(c))
            a2 == IF ~c.exc /\ a1.local
                  THEN AudioCall([a1 EXCEPT !.ms = VideoMs(t)], "setPosition")
                  ELSE a1
        IN  /\ IF clip_adapter = None
               THEN WinCommit(Ctl, FALSE, Aud,
                              [op |-> "_commitSeek", t |-> t, cmds |-> <<>>])
               ELSE WinCommit(c, TRUE, a2,
                              [op |-> "_commitSeek", t |-> t, cmds |-> <<>>])
            /\ UNCHANGED <<frame_skip_enabled, now, tlVars, genVars, guardVars,
                           sync_call, workerVars, resume_after_drag,
                           was_playing_before_thumbs, dragging,
                           paused_by_thumbs, thumbs_busy, auxVars>>

\* MainWindow._onThumbsBusy(busy); the timeline sends (False) only for a
\* generation it announced with (True)
ThumbsBusy ==
    \E busy \in BOOLEAN :
        LET resume == ~busy /\ was_playing_before_thumbs
            c == IF busy /\ state.playing THEN pause(Ctl)
                 ELSE IF resume THEN play(Ctl, now) ELSE Ctl
        IN  /\ busy \/ thumbs_busy
            /\ thumbs_busy' = busy
            /\ was_playing_before_thumbs' =
                   IF busy THEN state.playing ELSE was_playing_before_thumbs
            /\ paused_by_thumbs' =
                   IF busy THEN (state.playing \/ paused_by_thumbs) ELSE FALSE
            /\ WinCommit(c, (busy /\ state.playing) \/ resume,
                         Deliver(Aud, c.sig, position(c)),
                         [op |-> "_onThumbsBusy", busy |-> busy, cmds |-> <<>>])
            /\ UNCHANGED <<frame_skip_enabled, now, tlVars, genVars, guardVars,
                           sync_call, workerVars, resume_after_drag, dragging, auxVars>>

WindowNext ==
    \/ ImportMedia
    \/ PlayToggle
    \/ WinTick
    \/ WinAdvance
    \/ ScrubDragStarted
    \/ ScrubDragEnded
    \/ CommitScrubSeek

\* the preview panel builds its controller with the default frame_skip=True
\* and the window never calls set_frame_skipping
WindowInit == Init /\ frame_skip_enabled

WindowSpec == WindowInit /\ [][WindowNext]_vars

\* the window with the thumbnail-busy notifications instead of the scrub
\* handlers
BusyNext ==
    \/ ImportMedia
    \/ PlayToggle
    \/ WinTick
    \/ WinAdvance
    \/ ThumbsBusy

BusySpec == WindowInit /\ [][BusyNext]_vars

\* drag begin: the flag records whether the controller was playing, and
\* afterwards neither video nor audio plays
DragBeginPauses ==
    ScrubDragStarted =>
        /\ resume_after_drag' = state.playing
        /\ ~state'.playing
        /\ ~audio_playing'
        /\ state.playing => ~timer_active'

\* drag end: playback resumes at frame, video then audio, exactly when the
\* flag is set; otherwise nothing changes
DragEndResumes(frame) ==
    ScrubDragEnded =>
        IF resume_after_drag
        THEN /\ state'.playing
             /\ timer_active'
             /\ state'.current_frame = frame
             /\ ~timer_active => play_start_time' = PlayReference
             /\ audio_local =>
                    /\ audio_playing'
                    /\ audio_ms' = VideoMs(Position')
                    /\ win_call'.cmds = <<"setPosition", "play">>
        ELSE UNCHANGED <<state, timer_active, play_start_time, audio_playing,
                         audio_ms>>

\* only a drag begin writes the flag
DragFlagKept == ScrubDragStarted \/ resume_after_drag' = resume_after_drag

\* C15 as stated: drag begin pauses video and audio when playing and
\* remembers it; drag end resumes (video, then audio through 'playing') iff
\* the drag began while playing, and playback continues from the frame the
\* commit seek left.
C15_DragResumesFromSeek ==
    [][/\ DragBeginPauses
       /\ DragEndResumes(state.current_frame)
       /\ DragFlagKept]_vars

\* C15 amended: as above, but playback continues from the frame the commit
\* seek left unless that is the last frame of the clip, in which case it
\* restarts from frame 0.
C15_DragResumesOrWraps ==
    [][/\ DragBeginPauses
       /\ DragEndResumes(IF state.current_frame >= state.total_frames - 1
                         THEN 0 ELSE state.current_frame)
       /\ DragFlagKept]_vars

\* a drag that began while playing has ended: playback runs again from
\* frame 2, where the commit seek to 10/96 s put it
C15_Witness ==
    /\ win_call.op = "_onScrubDragEnded"
    /\ resume_after_drag
    /\ state.playing
    /\ audio_playing
    /\ state.current_frame = 2
    /\ play_start_time = <<now - 8>>

\* C16 as stated: a commit seek to t with a clip loaded seeks the controller
\* to t and, the audio source being a local file, sets the audio position to
\* int(t*1000); with no clip loaded it changes neither.
C16_CommitSeek ==
    [][CommitScrubSeek =>
         IF clip_adapter = None
         THEN UNCHANGED <<state, audio_playing, audio_ms>>
         ELSE /\ state'.current_frame =
                     SeekFrameIndex(win_call'.t, state.fps, state.total_frames)
              /\ audio_local => audio_ms' = VideoMs(win_call'.t)]_vars

\* the state events a handler emitted
StateEvents(sigs) == {i \in 1..Len(sigs) : sigs[i].sig = "stateChanged"}

\* the last two calls a handler made on the audio player
LastCmds(cmds) == SubSeq(cmds, Len(cmds) - 1, Len(cmds))

\* what the audio player shows after a handler whose last state event is s
AudioAfter(s) ==
    CASE s = "playing" -> /\ audio_playing'
                          /\ audio_ms' = VideoMs(Position')
                          /\ LastCmds(win_call'.cmds) = <<"setPosition", "play">>
      [] s = "paused"  -> /\ ~audio_playing'
                          /\ audio_ms' = audio_ms
      [] OTHER         -> /\ ~audio_playing'
                          /\ audio_ms' = 0

C17_AudioPlayingOnlyIfPlaying == audio_playing => last_state = "playing"

C17_AudioSteps ==
    [][(now' = now /\ audio_local /\ StateEvents(signals') # {}) =>
         LET ev == StateEvents(signals')
             last == CHOOSE i \in ev : \A j \in ev : j <= i
         IN  AudioAfter(signals'[last].v)]_vars

\* C17: with a local audio source, a handler ending on 'playing' has set the
\* audio position to position()*1000 ms and then started audio; one ending on
\* 'paused' has paused audio and left its position; one ending on 'stopped'
\* has paused audio and reset its position to 0; audio plays only if the
\* controller's last state event was 'playing'.
C17_AudioFollowsState == []C17_AudioPlayingOnlyIfPlaying /\ C17_AudioSteps

\* a tick at the end of the clip stopped playback: audio paused and rewound
C17_Witness ==
    /\ win_call.op = "_tick"
    /\ last_state = "stopped"
    /\ audio_local
    /\ ~audio_playing
    /\ audio_ms = 0
    /\ win_call.cmds = <<"pause", "pause", "setPosition">>

\* C18 as stated: when generation is reported no longer busy, playback that
\* the window paused for it is playing again, whatever busy notifications
\* came in between; playback the window did not pause is not started.
C18_AutoResume ==
    [][ThumbsBusy =>
         /\ (~win_call'.busy /\ paused_by_thumbs) =>
                state'.playing /\ timer_active'
         /\ (~win_call'.busy /\ ~paused_by_thumbs /\ ~state.playing) =>
                ~state'.playing]_vars

----------------------------------------------------------------------------
(***************************************************************************)
(* Properties of the playback controller                                   *)
(***************************************************************************)
Clamp(x, lo, hi) == Max(lo, Min(x, hi))

\* Python's round() of n/d for either sign
RoundQ(n, d) == IF n >= 0 THEN Round(n, d) ELSE -Round(-n, d)

Emitted(kind) == {i \in 1..Len(signals) : signals[i].sig = kind}

SeekReturned == call.op = "seek" /\ clip_adapter # None /\ state.total_frames > 0

\* C1 as stated: after seek(t) on a loaded clip with total_frames > 0,
\* current_frame = clamp(round(t*fps), 0, total_frames-1), position() is that
\* frame over fps and lies in [0, duration).
C1_SeekRounds ==
    SeekReturned =>
        /\ state.current_frame =
               Clamp(RoundQ(call.t * state.fps, TimeRes), 0, state.total_frames - 1)
        /\ Position = (state.current_frame * TimeRes) \div state.fps
        /\ 0 <= Position /\ Position < state.duration

\* C1 amended: after seek(t) on a loaded clip with total_frames > 0,
\* current_frame = clamp(int(t*fps), 0, total_frames-1) with int() truncating
\* toward zero, position() is that frame over fps and lies in [0, duration).
C1_SeekTruncates ==
    SeekReturned =>
        /\ state.current_frame =
               Clamp(Trunc(call.t * state.fps, TimeRes), 0, state.total_frames - 1)
        /\ Position = (state.current_frame * TimeRes) \div state.fps
        /\ 0 <= Position /\ Position < state.duration

\* a seek to 3/96 s at 24 fps (0.75 of a frame) landed on frame 0, and a seek
\* beyond the end was clamped to the last frame
C1_Witness ==
    /\ SeekReturned
    /\ \/ call.t = 3 /\ state.fps = 24 /\ state.total_frames > 1
          /\ state.current_frame = 0
       \/ call.t = 60 /\ state.current_frame = state.total_frames - 1

\* C2: in every reachable state 0 <= current_frame < total_frames when
\* total_frames > 0, and current_frame = 0 when total_frames = 0.
C2_FrameInRange ==
    IF state.total_frames > 0
    THEN 0 <= state.current_frame /\ state.current_frame < state.total_frames
    ELSE state.total_frames = 0 /\ state.current_frame = 0

\* a tick has brought a playing clip to its last frame
C2_Witness ==
    /\ call.op = "tick"
    /\ state.total_frames > 2
    /\ state.current_frame = state.total_frames - 1
    /\ state.playing

\* C3: a tick that does not end playback (emits no state change) never moves
\* current_frame backward, under either pacing policy and any clock reading.
C3_MonotonicTicks ==
    [][(call'.op = "tick"
        /\ \A i \in 1..Len(signals') : signals'[i].sig # "stateChanged")
       => state'.current_frame >= state.current_frame]_vars

\* a tick of a playing clip emitted a position past frame 2 without stopping
C3_Witness ==
    /\ call.op = "tick"
    /\ state.playing
    /\ state.current_frame > 2
    /\ Emitted("stateChanged") = {}
    /\ Emitted("positionChanged") # {}

\* C8 as stated: after load() returns the controller is Stopped: playing is
\* false, the periodic tick is not running, current_frame is 0 and the last
\* state event is 'stopped'.
C8_LoadStops ==
    (call.op = "load" /\ ~raised) =>
        /\ ~state.playing
        /\ ~timer_active
        /\ state.current_frame = 0
        /\ last_state = "stopped"

\* C9: load sets total_frames = round(fps*d) for d > 0 (12 for 0.5 s at
\* 24 fps) and 0 for d <= 0, emits clipLoaded(d) first, leaves position() at 0
\* and, when the decoder returns the frame, emits exactly one frame, with
\* timestamp 0, after clipLoaded and without any seek call.
C9_LoadScenario ==
    /\ TotalFrames(24, TimeRes \div 2) = 12
    /\ call.op = "load" =>
         /\ state.fps = FpsOr24(AdapterFps(clip_adapter))
         /\ state.duration = AdapterDuration(clip_adapter)
         /\ state.total_frames =
                IF state.duration > 0
                THEN Round(state.fps * state.duration, TimeRes) ELSE 0
         /\ signals[1] = ClipLoaded(state.duration)
         /\ Emitted("clipLoaded") = {1}
         /\ Position = 0
         /\ IF raised THEN Emitted("frameReady") = {}
            ELSE /\ Cardinality(Emitted("frameReady")) = 1
                 /\ \A i \in Emitted("frameReady") : i > 1 /\ signals[i].v = 0

\* a clip whose frame count is rounded up (1.75 -> 2) was loaded and its
\* first frame emitted
C9_Witness ==
    /\ call.op = "load"
    /\ ~raised
    /\ state.total_frames = 2
    /\ Emitted("frameReady") # {}

\* C10 as stated: a tick whose target reaches total_frames (the only tick
\* that emits a state change) and that returns has stopped playback: timer
\* halted, playing false, position back at 0, last state event 'stopped',
\* and no frame at or past total_frames emitted.
C10_EndOfClipStops ==
    (call.op = "tick" /\ ~raised /\ Emitted("stateChanged") # {}) =>
        /\ ~timer_active
        /\ ~state.playing
        /\ Position = 0
        /\ last_state = "stopped"
        /\ state.total_frames > 0 =>
               \A i \in Emitted("frameReady") :
                   signals[i].v * state.fps < state.total_frames * TimeRes

\* C11 as stated: when the decode of a playback tick raises, playback halts
\* (timer stopped, playing false) and a playback-error event is emitted.
C11_DecodeFailureHalts ==
    (call.op = "tick" /\ raised) =>
        /\ ~timer_active
        /\ ~state.playing
        /\ Emitted("playbackError") # {}

\* C12 as stated: every seek on a loaded controller has emitted
\* positionChanged carrying the resulting position() when it ends, whether or
\* not the frame was asked for and whether or not its decode succeeded.
C12_SeekEmitsPosition ==
    (call.op = "seek" /\ clip_adapter # None) =>
        /\ signals # <<>>
        /\ signals[Len(signals)] = PositionChanged(Position)

\* what every play() does: nothing without a source; otherwise it wraps
\* from the last frame to frame 0, has the timer running, sets playing and
\* emits 'playing'
PlayCommon ==
    IF clip_adapter = None
    THEN /\ UNCHANGED <<clip_adapter, state, timer_active, play_start_time>>
         /\ signals' = <<>>
    ELSE /\ state' = [state EXCEPT
                        !.current_frame =
                            IF state.current_frame >= state.total_frames - 1
                            THEN 0 ELSE state.current_frame,
                        !.playing = TRUE]
         /\ timer_active'
         /\ signals' = <<StateChanged("playing")>>

\* C13 as stated: play() is a no-op without a source; otherwise it wraps at
\* the last frame, sets the wall-clock reference to now - current_frame/fps,
\* starts the tick and sets Playing.
C13_PlaySetsReference ==
    [][Play => /\ PlayCommon
               /\ clip_adapter # None => play_start_time' = PlayReference]_vars

\* C13 amended: play() is a no-op without a source; otherwise it wraps at the
\* last frame, sets Playing and emits 'playing'; only when the tick timer is
\* not already active does it set the wall-clock reference to
\* now - current_frame/fps (the desired frame at that instant is then
\* current_frame) and start the timer; with the timer active the reference
\* is left as it was.
C13_PlayStartsClock ==
    [][Play => /\ PlayCommon
               /\ (clip_adapter # None /\ ~timer_active) =>
                      /\ play_start_time' = PlayReference
                      /\ Trunc((now - play_start_time'[1]) * state'.fps, TimeRes)
                             = state'.current_frame
               /\ (clip_adapter # None /\ timer_active) =>
                      play_start_time' = play_start_time]_vars

\* play() resumed a clip paused past frame 0: the reference lies before now
C13_Witness ==
    /\ call.op = "play"
    /\ state.playing
    /\ timer_active
    /\ state.current_frame > 0
    /\ play_start_time = <<now - (state.current_frame * TimeRes) \div state.fps>>

\* C14 as stated: after pause() the tick is halted, playing is false, only
\* 'paused' was emitted and position() is below the duration; after stop()
\* the same holds, current_frame is 0 and the controller is Stopped.
C14_PauseStopHalt ==
    /\ call.op = "pause" =>
         /\ ~timer_active
         /\ ~state.playing
         /\ signals = <<StateChanged("paused")>>
         /\ state.total_frames > 0 => Position < state.duration
    /\ call.op = "stop" =>
         /\ ~timer_active
         /\ ~state.playing
         /\ state.current_frame = 0
         /\ last_state = "stopped"


----------------------------------------------------------------------------
(***************************************************************************)
(* Properties of the background generation                                 *)
(***************************************************************************)
\* the reasons for which a failure is to hide the visual
HidingReasons == {"no audio", "non-positive duration"}

\* C21 as stated: a failure with the current token whose reason is neither
\* "no audio" nor "non-positive duration" leaves the displayed thumbnails
\* and waveform, data and visibility, untouched; a failure with one of
\* these two reasons hides the corresponding visual.
C21_FailureKeepsDisplay ==
    [][/\ (OnThumbs /\ tl_call'.msg.kind = "failed"
             /\ tl_call'.msg.gen = thumb_gen_id) =>
              IF tl_call'.msg.reason \in HidingReasons
              THEN ~strip'.visible
              ELSE strip' = strip
       /\ (OnWaveform /\ tl_call'.msg.kind = "failed"
             /\ tl_call'.msg.gen = wave_gen_id) =>
              IF tl_call'.msg.reason \in HidingReasons
              THEN ~waveform'.visible
              ELSE waveform' = waveform]_vars

\* C22 as stated: a thumbnail job that was not cancelled returns having
\* emitted finished or failed, and it has emitted failed when the duration
\* is not positive or when the decode of one of its samples raised.
C22_ThumbOutcome ==
    (wk_thumb.pc = "returned" /\ ~wk_thumb.interrupted) =>
        /\ wk_thumb.emitted \in {"finished", "failed"}
        /\ (ClipDuration(wk_thumb.clip) <= 0
              \/ wk_thumb.images < wk_thumb.decodes)
           => wk_thumb.emitted = "failed"


----------------------------------------------------------------------------
(***************************************************************************)
(* Tick pacing                                                             *)
(***************************************************************************)
\* floor(elapsed * fps) at the time of the tick
DesiredFrame ==
    ((now - play_start_time[1]) * FpsOr24(state.fps)) \div TimeRes

\* the frame the pacing policy in force selects
PacedFrame ==
    IF frame_skip_enabled
    THEN IF DesiredFrame > state.current_frame
         THEN DesiredFrame ELSE state.current_frame + 1
    ELSE IF DesiredFrame - state.current_frame > sync_threshold_frames
         THEN DesiredFrame ELSE state.current_frame + 1

\* a step that is a tick (the only handler that records "tick" and leaves
\* the clock and the policy alone) of a loaded controller whose clock
\* reference is set
PacedTick ==
    /\ call'.op = "tick"
    /\ now' = now
    /\ frame_skip_enabled' = frame_skip_enabled
    /\ clip_adapter # None
    /\ play_start_time # NoTime

\* C29 as stated: every tick moves current_frame to the frame its pacing
\* policy selects.
C29_TickPacing ==
    [][PacedTick => state'.current_frame = PacedFrame]_vars

\* C29: a tick moves current_frame to the frame its pacing policy selects
\* (frame-skip enabled: the desired frame when it is ahead of current_frame,
\* else one frame on; disabled: one frame on unless the desired frame is
\* more than the sync threshold ahead, then the desired frame), unless that
\* frame is at or past total_frames: such a tick never moves to that frame.
C29_TickPacingWithinClip ==
    [][PacedTick =>
          IF PacedFrame < state.total_frames
          THEN state'.current_frame = PacedFrame
          ELSE state'.current_frame # PacedFrame]_vars

\* a tick without frame skipping resynchronised: it jumped more than the
\* threshold, to the desired frame, inside the clip
C29_Witness ==
    /\ call.op = "tick"
    /\ ~frame_skip_enabled
    /\ state.playing
    /\ Emitted("positionChanged") # {}
    /\ play_start_time # NoTime
    /\ state.current_frame =
           ((now - play_start_time[1]) * FpsOr24(state.fps)) \div TimeRes
    /\ state.current_frame > sync_threshold_frames + 1


----------------------------------------------------------------------------
(***************************************************************************)
(* Generation tokens, overlap and the display                              *)
(***************************************************************************)
NoRepeat(seq) ==
    \A i, j \in 1..Len(seq) : seq[i] = seq[j] => i = j

Shown(v) == [v EXCEPT !.visible = TRUE]

\* the strip shows, whole, a result of the latest thumbnail generation
StripOfLatest ==
    /\ applied.thumb # <<>>
    /\ applied.thumb[Len(applied.thumb)] = thumb_gen_id
    /\ \E w \in Widths :
         \E out \in ThumbnailOutcomes([gen |-> thumb_gen_id, clip |-> tl_clip,
                                       width |-> w, interrupted |-> FALSE]) :
             /\ out.kind = "finished"
             /\ strip = [pixmaps |-> out.images, positions |-> out.times,
                         duration |-> out.duration, visible |-> TRUE]

\* the waveform shows, whole, a result of the latest waveform generation
WaveformOfLatest ==
    /\ applied.wave # <<>>
    /\ applied.wave[Len(applied.wave)] = wave_gen_id
    /\ \E w \in Widths :
         \E out \in WaveformOutcomes([gen |-> wave_gen_id, clip |-> tl_clip,
                                      width |-> w, interrupted |-> FALSE]) :
             /\ out.kind = "finished"
             /\ waveform = [amps |-> out.amps, duration |-> out.duration,
                            visible |-> TRUE]

C23_LiveResult ==
    /\ NoRepeat(applied.thumb)
    /\ NoRepeat(applied.wave)
    /\ Shown(strip) = Shown(shown_before.thumb) \/ StripOfLatest
    /\ Shown(waveform) = Shown(shown_before.wave) \/ WaveformOfLatest

C23_LiveSteps ==
    [][/\ OnThumbs =>
            IF tl_call'.msg.gen # thumb_gen_id
            THEN UNCHANGED <<strip, tl_duration, applied>>
            ELSE (tl_call'.msg.kind = "finished" /\ tl_call'.msg.images # <<>>)
                 => strip' = [pixmaps |-> tl_call'.msg.images,
                              positions |-> tl_call'.msg.times,
                              duration |-> tl_call'.msg.duration,
                              visible |-> TRUE]
       /\ OnWaveform =>
            IF tl_call'.msg.gen # wave_gen_id
            THEN UNCHANGED <<waveform, applied>>
            ELSE tl_call'.msg.kind = "finished"
                 => waveform' = [amps |-> tl_call'.msg.amps,
                                 duration |-> tl_call'.msg.duration,
                                 visible |-> TRUE]]_vars

\* C23: with jobs of several generations of one kind running at once and
\* their results delivered in any order, a result of an older generation
\* changes nothing once a newer one was started, no token has two results
\* applied, an applied result replaces images, timestamps and duration
\* together, and what is displayed is a whole result of the latest
\* generation or what was displayed when it started.
C23_OneLiveResult == []C23_LiveResult /\ C23_LiveSteps

\* the result of the latest generation was applied while the job of the
\* generation before it was still running
C23_Witness ==
    /\ tl_call.op = "_onThumbs"
    /\ tl_call.msg.gen = thumb_gen_id
    /\ tl_call.msg.kind = "finished"
    /\ \E j \in thumb_jobs : j.gen < thumb_gen_id /\ j.clip # tl_clip
    /\ StripOfLatest
    /\ Shown(strip) # Shown(shown_before.thumb)

\* C25: when setMedia(clip) returns the duration is max(0, clip.duration)
\* and one job of each kind is pending, while the thumbnails, the waveform
\* and the queued results are as before; thumbnails and waveform change
\* only when a result is delivered.
C25_SetMediaSynchronous ==
    [][/\ SetMedia =>
            /\ tl_duration' = Max(0, ClipDuration(tl_clip'))
            /\ UNCHANGED <<strip, waveform, thumb_results, wave_results,
                           applied>>
            /\ \E j \in thumb_jobs' : j.gen = thumb_gen_id'
            /\ \E j \in wave_jobs' : j.gen = wave_gen_id'
       /\ strip' # strip => OnThumbs
       /\ waveform' # waveform => OnWaveform]_vars

\* setMedia has returned for a clip of positive duration: the duration is
\* set, both jobs still run and nothing is displayed yet
C25_Witness ==
    /\ tl_call.op = "setMedia"
    /\ tl_duration = ClipDuration(tl_clip)
    /\ tl_duration > 0
    /\ \E j \in thumb_jobs : j.gen = thumb_gen_id
    /\ \E j \in wave_jobs : j.gen = wave_gen_id
    /\ applied = [thumb |-> <<>>, wave |-> <<>>]
    /\ ~strip.visible
    /\ ~waveform.visible

\* the jobs of a kind after a start: the ones that still ran, all with
\* their interruption requested, and one new job carrying the new token
StartedOne(jobs, jobs_after, gen, gen_after) ==
    /\ gen_after = gen + 1
    /\ \E new \in jobs_after :
         /\ new.gen = gen_after
         /\ new.clip = tl_clip'
         /\ ~new.interrupted
         /\ jobs_after \ {new} = {[j EXCEPT !.interrupted = TRUE] : j \in jobs}
    /\ \A j \in jobs : j.gen <= gen

C30_StartSteps ==
    [][/\ (SetMedia \/ RegenerateThumbnails) =>
            IF tl_clip' = None
            THEN UNCHANGED <<thumb_gen_id, wave_gen_id, thumb_jobs, wave_jobs>>
            ELSE /\ StartedOne(thumb_jobs, thumb_jobs', thumb_gen_id,
                               thumb_gen_id')
                 /\ StartedOne(wave_jobs, wave_jobs', wave_gen_id,
                               wave_gen_id')
       /\ thumb_gen_id' >= thumb_gen_id
       /\ wave_gen_id' >= wave_gen_id
       /\ thumb_jobs' \subseteq thumb_jobs \/ thumb_gen_id' = thumb_gen_id + 1
       /\ wave_jobs' \subseteq wave_jobs \/ wave_gen_id' = wave_gen_id + 1]_vars

C30_TokensUnique ==
    /\ \A j1, j2 \in thumb_jobs : j1.gen = j2.gen => j1 = j2
    /\ \A j1, j2 \in wave_jobs : j1.gen = j2.gen => j1 = j2
    /\ \A j \in thumb_jobs : j.gen <= thumb_gen_id
    /\ \A j \in wave_jobs : j.gen <= wave_gen_id

\* C30: a start of a generation requests the interruption of the jobs of
\* its kind that still run, then bumps the kind's token by exactly one and
\* launches exactly one worker carrying the new token; a token never
\* decreases and no two workers of a kind carry the same one, a kind's jobs
\* and token change only together, and a start with no clip attached starts
\* nothing and leaves the tokens unchanged.
C30_StartProtocol == []C30_TokensUnique /\ C30_StartSteps

\* a regeneration started while the job of the generation before it still
\* ran: that job has its interruption requested, the new one has not
C30_Witness ==
    /\ tl_call.op = "_regenerateThumbnails"
    /\ thumb_gen_id = 2
    /\ \E j \in thumb_jobs : j.gen = 1 /\ j.interrupted
    /\ \E j \in thumb_jobs : j.gen = 2 /\ ~j.interrupted
    /\ \E j \in wave_jobs : j.gen = 1 /\ j.interrupted


----------------------------------------------------------------------------
(***************************************************************************)
(* app/utils/timefmt.py: format_time.  A seconds value is a decimal with   *)
(* four fractional digits, held as the integer count of 1/FmtRes s, which  *)
(* is what Decimal(str(seconds)) is for such a float.  A text is the       *)
(* sequence of its characters.                                             *)
(***************************************************************************)
FmtRes == 10 * 1000

\* the arguments: negative, around a rounding tie, around a carry into the
\* seconds, the minutes and the hundredth minute
FormatInputs ==
    (-3 .. 120) \cup {-10000, 9994, 9995, 9996, 12345, 599994, 599995,
                      600000, 610000, 35999994, 35999995, 36000000,
                      59999995, 60000000}

DigitChars == <<"0", "1", "2", "3", "4", "5", "6", "7", "8", "9">>

\* str(n) of a natural number
RECURSIVE DigitsOf(_)
DigitsOf(n) ==
    IF n < 10 THEN <<DigitChars[n + 1]>>
    ELSE Append(DigitsOf(n \div 10), DigitChars[(n % 10) + 1])

RECURSIVE Zeros(_)
Zeros(k) == IF k <= 0 THEN <<>> ELSE <<"0">> \o Zeros(k - 1)

\* f"{n:0wd}": zero padded to at least w characters, sign included
Padded(n, w) ==
    IF n >= 0
    THEN Zeros(w - Len(DigitsOf(n))) \o DigitsOf(n)
    ELSE <<"-">> \o Zeros(w - 1 - Len(DigitsOf(-n))) \o DigitsOf(-n)

RoundDown(n, d) == n \div d

\* to_integral_value(rounding=ROUND_HALF_UP) of n/d, n >= 0
RoundHalfUp(n, d) ==
    IF 2 * (n % d) >= d THEN (n \div d) + 1 ELSE n \div d

format_time(seconds) ==
    LET secs == IF seconds < 0 THEN 0 ELSE seconds
        \* Decimal(str(seconds)) * Decimal(1000), as a quotient
        ms_total == RoundHalfUp(secs, FmtRes \div 1000)
        m == ms_total \div 60000
        rem == ms_total % 60000
        sec == rem \div 1000
        ms == rem % 1000
    IN  Padded(m, 2) \o <<":">> \o Padded(sec, 2) \o <<".">> \o Padded(ms, 3)

FormatTime ==
    \E seconds \in FormatInputs :
        /\ formatted' = [seconds |-> seconds, text |-> format_time(seconds)]
        /\ UNCHANGED <<ctlVars, tlVars, genVars, guardVars, syncVars,
                       workerVars, winVars, histVars, resizeVars, scrubVars,
                       extraVars>>

FormatNext == FormatTime

FormatSpec == Init /\ [][FormatNext]_vars

\* the number a run of digit characters denotes, -1 if one is not a digit
RECURSIVE NumberOf(_)
NumberOf(chars) ==
    IF chars = <<>> THEN 0
    ELSE LET ch == chars[Len(chars)]
             front == NumberOf(SubSeq(chars, 1, Len(chars) - 1))
         IN  IF front < 0 \/ \A d \in 1..10 : DigitChars[d] # ch THEN -1
             ELSE 10 * front + (CHOOSE d \in 0..9 : DigitChars[d + 1] = ch)

\* the text read back as minutes ":" 2 digits "." 3 digits
TextMinutes == NumberOf(SubSeq(formatted.text, 1, Len(formatted.text) - 7))
TextSeconds ==
    NumberOf(SubSeq(formatted.text, Len(formatted.text) - 5,
                    Len(formatted.text) - 4))
TextMillis ==
    NumberOf(SubSeq(formatted.text, Len(formatted.text) - 2,
                    Len(formatted.text)))

\* seconds * 1000 rounded half up: floor(seconds * 1000 + 1/2)
HalfUpMs ==
    (2 * formatted.seconds + FmtRes \div 1000) \div (2 * (FmtRes \div 1000))

\* C28: a negative argument formats as "00:00.000"; otherwise the text is
\* mm:ss.mmm whose total of milliseconds is seconds * 1000 rounded half up
\* (0.9996 -> "00:01.000", 1.2345 -> "00:01.235"), with seconds in 0..59,
\* milliseconds in 0..999, minutes = total div 60000 however large, at
\* least two digits of minutes, and no negative component.
C28_FormatTime ==
    formatted.text # <<>> =>
        /\ Len(formatted.text) >= 9
        /\ formatted.text[Len(formatted.text) - 6] = ":"
        /\ formatted.text[Len(formatted.text) - 3] = "."
        /\ TextMinutes >= 0
        /\ TextSeconds \in 0..59
        /\ TextMillis \in 0..999
        /\ formatted.seconds < 0 =>
               formatted.text = <<"0", "0", ":", "0", "0", ".", "0", "0", "0">>
        /\ formatted.seconds >= 0 =>
               /\ TextMinutes = HalfUpMs \div 60000
               /\ 60000 * TextMinutes + 1000 * TextSeconds + TextMillis
                      = HalfUpMs
        /\ formatted.seconds = 9996 =>
               formatted.text = <<"0", "0", ":", "0", "1", ".", "0", "0", "0">>
        /\ formatted.seconds = 12345 =>
               formatted.text = <<"0", "0", ":", "0", "1", ".", "2", "3", "5">>
        /\ formatted.seconds = 610000 =>
               formatted.text = <<"0", "1", ":", "0", "1", ".", "0", "0", "0">>

\* 59:59.9995 was formatted: the tie rounds up and carries into minute 60,
\* which is not wrapped
C28_Witness ==
    /\ formatted.seconds = 35999995
    /\ formatted.text = <<"6", "0", ":", "0", "0", ".", "0", "0", "0">>


----------------------------------------------------------------------------
(***************************************************************************)
(* ClipPreviewPanel: a controller and a scrubber wired to each other       *)
(* (scrubber.positionChanged -> controller.seek, controller                *)
(* .positionChanged -> scrubber.setPosition), and the slider of the        *)
(* scrubber's TimelineWidget under the mouse.                              *)
(***************************************************************************)
\* the values the handle is dragged to; value / 1000 * duration is a whole
\* number of time units for the durations of WinClips
SliderValues == {0, 40, 400, 1000}

\* (value / self.slider.maximum()) * self._duration
SliderTime(value) == (value * tl_duration) \div slider_maximum

LiveInsteadOfCommit(t) == [sig |-> "positionChanged", v |-> t]

SeekRequested(t) == [sig |-> "seekRequested", v |-> t]

\* the slider value after controller.positionChanged -> scrubber.setPosition
\* ran for each position among sigs; down: self.slider.isSliderDown()
Mirrored(sigs, value, down) ==
    LET idx == {i \in 1..Len(sigs) : sigs[i].sig = "positionChanged"}
    IN  IF idx = {} \/ tl_duration <= 0 \/ down THEN value
        ELSE SliderValueFor(sigs[CHOOSE i \in idx : \A j \in idx : j <= i].v,
                            tl_duration)

\* QAbstractSlider.setValue emits sliderMoved only while the slider is pressed
SetValueMoves(down) == down

setPositionAsDrag(sigs, down) ==
    LET pos == SelectSeq(sigs, LAMBDA s : s.sig = "positionChanged")
    IN  IF tl_duration <= 0 THEN <<>>
        ELSE [i \in 1..Len(pos) |->
                 PositionChanged(SliderTime(SliderValueFor(pos[i].v, tl_duration)))]

\* what the scrub bar emits while controller.positionChanged ->
\* scrubber.setPosition runs for each position among sigs: setValue is
\* called only when the slider is not down, with _suppress_signal set, and
\* _onSliderMoved returns at once under _suppress_signal
setPositionEmits(sigs, down) ==
    LET pos == SelectSeq(sigs, LAMBDA s : s.sig = "positionChanged")
        suppress_signal == TRUE
    IN  IF tl_duration <= 0 \/ down THEN <<>>
        ELSE IF SetValueMoves(down) /\ ~suppress_signal
        THEN [i \in 1..Len(pos) |->
                 PositionChanged(SliderTime(SliderValueFor(pos[i].v, tl_duration)))]
        ELSE <<>>

\* BasePreviewPanel.load: controller.load, then (unless it raised)
\* scrubber.setClip -> setMedia and scrubber.setPosition(0.0)
PanelLoad ==
    \E clip \in WinClips, ok \in BOOLEAN :
        LET c == load(Ctl, clip, ok)
        IN  /\ thumb_gen_id < MaxImports
            /\ Commit(c, [op |-> "load"])
            /\ IF c.exc
               THEN /\ slider_value' = Mirrored(c.sig, slider_value, slider_down)
                    /\ external_mutex' = AttachedByAdapter
                    /\ UNCHANGED <<tl_duration, in_point, out_point, tl_call,
                                   genVars, decodes_left, shown_before>>
               ELSE /\ tl_clip' = clip
                    /\ setDuration(ClipDuration(clip))
                    /\ StartGenerations(clip, 640)
                    /\ slider_value' =
                           IF slider_down THEN slider_value
                           ELSE IF ClipDuration(clip) > 0 THEN 0
                           ELSE Mirrored(c.sig, slider_value, FALSE)
                    /\ tl_call' = [op |-> "setMedia"]
                    /\ external_mutex' = AttachedBySetMedia(AttachedByAdapter)
                    /\ decodes_left' =
                           [thumb |-> ThumbCount(max_thumbs_default, 640),
                            wave |-> 1]
                    /\ UNCHANGED <<thumb_results, wave_results, strip, waveform>>
            /\ UNCHANGED <<frame_skip_enabled, now, mutex_owner, decoding,
                           decode_raised, syncVars, workerVars, winVars,
                           applied, resizeVars, slider_down, formatted,
                           extraVars>>
            /\ tl_signals' = setPositionEmits(c.sig, slider_down)

\* ClipPreviewPanel._onPlayToggle
PanelPlayToggle ==
    LET c == IF state.playing THEN pause(Ctl) ELSE play(Ctl, now)
    IN  /\ Commit(c, [op |-> "_onPlayToggle"])
        /\ slider_value' = Mirrored(c.sig, slider_value, slider_down)
        /\ tl_signals' = setPositionEmits(c.sig, slider_down)
        /\ UNCHANGED <<frame_skip_enabled, now, tl_duration, in_point,
                       out_point, tl_call, genVars, guardVars, syncVars,
                       workerVars, winVars, histVars, resizeVars, slider_down,
                       formatted, extraVars>>

\* QTimer.timeout -> _tick, with the panel's slot
PanelTick ==
    /\ timer_active
    /\ \E ok1 \in BOOLEAN, ok2 \in BOOLEAN :
           LET c == tick(Ctl, now, frame_skip_enabled, ok1, ok2)
           IN  /\ Commit(c, [op |-> "tick"])
               /\ slider_value' = Mirrored(c.sig, slider_value, slider_down)
               /\ tl_signals' = setPositionEmits(c.sig, slider_down)
    /\ UNCHANGED <<frame_skip_enabled, now, tl_duration, in_point, out_point,
                   tl_call, genVars, guardVars, syncVars, workerVars, winVars,
                   histVars, resizeVars, slider_down, formatted, extraVars>>

\* QSlider.sliderPressed -> _onSliderPressed: "pass"
SliderPressed ==
    /\ ~slider_down
    /\ slider_down' = TRUE
    /\ tl_signals' = <<>>
    /\ tl_call' = [op |-> "_onSliderPressed"]
    /\ UNCHANGED <<tl_duration, in_point, out_point, slider_value, ctlVars,
                   genVars, guardVars, syncVars, workerVars, winVars, histVars,
                   resizeVars, formatted, extraVars>>

\* QSlider.sliderMoved(value) -> _onSliderMoved, and the panel's
\* controller.seek(t, emit_frame=True) for the position it emits;
\* _suppress_signal is False whenever a slider callback runs
SliderMoved ==
    \E value \in SliderValues, ok \in BOOLEAN :
        LET t == SliderTime(value)
            c == seek(Ctl, t, TRUE, ok)
        IN  /\ slider_down
            /\ value # slider_value
            /\ tl_call' = [op |-> "_onSliderMoved", value |-> value]
            /\ IF tl_duration <= 0
               THEN /\ tl_signals' = <<>>
                    /\ slider_value' = value
                    /\ UNCHANGED ctlVars
               ELSE /\ tl_signals' = <<PositionChanged(t)>>
                                      \o setPositionEmits(c.sig, slider_down)
                    /\ Commit(c, [op |-> "seek", t |-> t])
                    /\ slider_value' = Mirrored(c.sig, value, slider_down)
                    /\ UNCHANGED <<frame_skip_enabled, now>>
            /\ UNCHANGED <<tl_duration, in_point, out_point, slider_down,
                           genVars, guardVars, syncVars, workerVars, winVars,
                           histVars, resizeVars, formatted, extraVars>>

\* QSlider.sliderReleased -> _onSliderReleased; the slider is no longer
\* down when the signal is sent
SliderReleased ==
    /\ slider_down
    /\ slider_down' = FALSE
    /\ tl_signals' = IF tl_duration <= 0 THEN <<>>
                     ELSE <<SeekRequested(SliderTime(slider_value))>>
    /\ tl_call' = [op |-> "_onSliderReleased"]
    /\ UNCHANGED <<tl_duration, in_point, out_point, slider_value, ctlVars,
                   genVars, guardVars, syncVars, workerVars, winVars, histVars,
                   resizeVars, formatted, extraVars>>

PanelNext ==
    \/ PanelLoad
    \/ PanelPlayToggle
    \/ PanelTick
    \/ WinAdvance
    \/ SliderPressed
    \/ SliderMoved
    \/ SliderReleased

PanelSpec == WindowInit /\ [][PanelNext]_vars


----------------------------------------------------------------------------
(***************************************************************************)
(* Properties of the scrub bar                                             *)
(***************************************************************************)
SliderPressStep == tl_call'.op = "_onSliderPressed" /\ tl_call' # tl_call

SliderMoveStep == tl_call'.op = "_onSliderMoved" /\ tl_call' # tl_call

SliderReleaseStep == tl_call'.op = "_onSliderReleased" /\ tl_call' # tl_call

\* C26: pressing the slider emits nothing; a move with duration > 0 emits
\* exactly one positionChanged(value / 1000 * duration) and no seekRequested;
\* a release emits exactly one seekRequested with the released position and
\* no positionChanged; with duration <= 0 a move and a release emit nothing.
C26_DragEvents ==
    [][/\ SliderPressStep => tl_signals' = <<>>
       /\ SliderMoveStep =>
              tl_signals' =
                  IF tl_duration > 0
                  THEN <<[sig |-> "positionChanged",
                          v |-> (slider_value' * tl_duration)
                                \div slider_maximum]>>
                  ELSE <<>>
       /\ SliderReleaseStep =>
              tl_signals' =
                  IF tl_duration > 0
                  THEN <<[sig |-> "seekRequested",
                          v |-> (slider_value * tl_duration)
                                \div slider_maximum]>>
                  ELSE <<>>]_vars

\* a handle dragged to 400 of 1000 on a clip of 25 time units and released
C26_Witness ==
    /\ tl_call.op = "_onSliderReleased"
    /\ tl_duration = 25
    /\ slider_value = 400
    /\ tl_signals = <<[sig |-> "seekRequested", v |-> 10]>>

\* the controller's position, clamped to [0, duration] and quantised to the
\* slider's steps, in the unit of currentPosition
QuantisedPosition(t) ==
    IF tl_duration <= 0 THEN 0
    ELSE SliderValueFor(t, tl_duration) * tl_duration

PositionUpdate ==
    /\ signals' # signals \/ call' # call
    /\ \E i \in 1..Len(signals') : signals'[i].sig = "positionChanged"

\* C27: while the controller is playing and the slider is not held, each
\* position update of the controller sets the scrub bar's position to the
\* controller's position, clamped to [0, duration] and quantised to the
\* slider's steps, so the scrub position advances as playback advances;
\* while the slider is held, a position update leaves the slider value alone.
C27_ScrubMirrorsPlayback ==
    [][/\ (state.playing /\ PositionUpdate /\ ~slider_down /\ ~slider_down') =>
              /\ currentPosition' = QuantisedPosition(Position')
              /\ (Position' > Position
                  /\ currentPosition = QuantisedPosition(Position)) =>
                     currentPosition' > currentPosition
       /\ (PositionUpdate /\ slider_down /\ ~SliderMoveStep) =>
              slider_value' = slider_value
       /\ (PositionUpdate /\ SliderMoveStep) =>
              slider_value' = tl_call'.value]_vars

\* the same for a scrub bar that has a duration: holds
C27_ScrubMirrorsLoaded ==
    [][/\ (state.playing /\ PositionUpdate /\ ~slider_down /\ ~slider_down'
           /\ tl_duration > 0) =>
              /\ currentPosition' = QuantisedPosition(Position')
              /\ (Position' > Position
                  /\ currentPosition = QuantisedPosition(Position)) =>
                     currentPosition' > currentPosition
       /\ (PositionUpdate /\ slider_down /\ ~SliderMoveStep) =>
              slider_value' = slider_value
       /\ (PositionUpdate /\ SliderMoveStep) =>
              slider_value' = tl_call'.value]_vars


----------------------------------------------------------------------------
(***************************************************************************)
(* ThumbnailWorker.run: the choice of the sample timestamps.  A timestamp  *)
(* is held as its numerator over the number of steps, so that the step     *)
(* duration / max_thumbs is the whole number duration.                     *)
(***************************************************************************)
\* the arguments a ThumbnailWorker is constructed with
SampleDurations == {1, 25, 50, 96}
SampleCounts == {0, 1, 3, 12, 48, 60}
SampleWidthHints == {-1, 0, 250, 640, 6000}

\* "if self._width_hint > 0: ... self._max = min(max(self._max, approx), 48)"
\* and "max_thumbs = max(1, self._max)"
SampleCount(max_thumbs, width_hint) ==
    LET approx == Max(3, Trunc(width_hint, 100))
        capped == IF width_hint > 0 THEN Min(Max(max_thumbs, approx), 48)
                  ELSE max_thumbs
    IN  Max(1, capped)

\* "while t < duration and len(times) < max_thumbs: times.append(t); t += step"
\* with t and duration as numerators over max_thumbs
RECURSIVE SampleLoop(_, _, _, _)
SampleLoop(times, t, duration, max_thumbs) ==
    IF t < duration * max_thumbs /\ Len(times) < max_thumbs
    THEN SampleLoop(Append(times, t), t + duration, duration, max_thumbs)
    ELSE times

\* a worker's run() on a clip of positive duration, up to the decode loop
SampleRun ==
    \E duration \in SampleDurations, max_thumbs \in SampleCounts,
       width_hint \in SampleWidthHints :
        LET n == SampleCount(max_thumbs, width_hint)
        IN  /\ sample_run' = [duration |-> duration, max_thumbs |-> max_thumbs,
                              width_hint |-> width_hint, step |-> n,
                              times |-> SampleLoop(<<>>, 0, duration, n)]
            /\ UNCHANGED <<ctlVars, tlVars, genVars, guardVars, syncVars,
                           workerVars, winVars, histVars, resizeVars,
                           scrubVars, formatted, in_out_emitted>>

SampleNext == SampleRun

SampleSpec == Init /\ [][SampleNext]_vars

\* C31: for every duration > 0, requested count and width hint the job
\* samples n timestamps with 1 <= n <= 48, the k-th of them (k = 0..n-1) at
\* k * duration / n: evenly spaced, strictly increasing, within [0, duration).
C31_ThumbnailSampling ==
    sample_run.duration > 0 =>
        LET times == sample_run.times
            n == Len(times)
        IN  /\ 1 <= n /\ n <= 48
            /\ \A k \in 1..n :
                   /\ times[k] * n = (k - 1) * sample_run.duration * sample_run.step
                   /\ 0 <= times[k]
                   /\ times[k] < sample_run.duration * sample_run.step
            /\ \A k \in 1..(n - 1) : times[k] < times[k + 1]

\* the same without the bound of 48: holds
C31_SamplingEvenlySpaced ==
    sample_run.duration > 0 =>
        LET times == sample_run.times
            n == Len(times)
        IN  /\ 1 <= n
            /\ sample_run.width_hint > 0 => n <= 48
            /\ \A k \in 1..n :
                   /\ times[k] * n = (k - 1) * sample_run.duration * sample_run.step
                   /\ 0 <= times[k]
                   /\ times[k] < sample_run.duration * sample_run.step
            /\ \A k \in 1..(n - 1) : times[k] < times[k + 1]


----------------------------------------------------------------------------
(***************************************************************************)
(* Further properties of the playback controller                           *)
(***************************************************************************)
\* a step of _tick: the clock and the pacing policy stand still
TickStep ==
    /\ call'.op = "tick"
    /\ now' = now
    /\ frame_skip_enabled' = frame_skip_enabled
    /\ timer_active

\* C32: in every state reachable by load, play, pause, stop, seek and ticks
\* the tick timer is active iff PlaybackState.playing is true; no tick
\* advances current_frame while playing is false.
C32_TimerAgreesWithState ==
    /\ [](timer_active <=> state.playing)
    /\ [][(TickStep /\ ~state.playing) =>
              state'.current_frame <= state.current_frame]_vars


\* whole frame intervals between the clock reading t0 and now
FramesSince(t0) == Trunc((now - t0) * FpsOr24(state.fps), TimeRes)

\* C33: after a seek to frame s made while playing, the first tick shows
\* frame s plus the frame intervals elapsed since the seek, at least s + 1,
\* however long playback had run before the seek, backward and forward.
C33_SeekWhilePlaying ==
    [][(/\ TickStep
        /\ call.op = "seek"
        /\ ~raised
        /\ state.playing
        /\ clip_adapter # None
        /\ state.current_frame + Max(1, FramesSince(call.at))
               < state.total_frames)
       => state'.current_frame
              = state.current_frame + Max(1, FramesSince(call.at))]_vars


\* a step of play() on a controller that is already Playing
RedundantPlay ==
    /\ call'.op = "play"
    /\ now' = now
    /\ frame_skip_enabled' = frame_skip_enabled
    /\ clip_adapter # None
    /\ state.playing
    /\ timer_active

\* C34: play() while already Playing leaves PlaybackState (current_frame,
\* playing), the wall-clock reference and the timer as they are and only
\* re-emits 'playing', at every current_frame, the last frame included.
C34_RedundantPlay ==
    [][RedundantPlay =>
           /\ state' = state
           /\ play_start_time' = play_start_time
           /\ timer_active'
           /\ signals' = <<StateChanged("playing")>>]_vars

\* the same before the last frame: holds
C34_RedundantPlayBeforeLast ==
    [][(RedundantPlay /\ state.current_frame < state.total_frames - 1) =>
           /\ state' = state
           /\ play_start_time' = play_start_time
           /\ timer_active'
           /\ signals' = <<StateChanged("playing")>>]_vars


----------------------------------------------------------------------------
(***************************************************************************)
(* One playback left to itself: load and seek prepare the controller      *)
(* while it is idle, play() starts it, and from then on only the timer     *)
(* and the clock act.  The QTimer fires for as long as it is active.       *)
(***************************************************************************)
Idle == ~timer_active /\ ~state.playing

IdleLoad == Idle /\ Load

IdleSeek == Idle /\ Seek

IdlePlay == Idle /\ Play

PlaybackNext ==
    \/ IdleLoad
    \/ IdleSeek
    \/ IdlePlay
    \/ Tick
    \/ WinAdvance

PlaybackSpec == Init /\ [][PlaybackNext]_vars /\ WF_vars(Tick)

\* C35: playback started by play() on a loaded clip, of any total_frames
\* and from any start frame, with the timer firing and no further play,
\* seek or load, eventually reaches Stopped: timer inactive, playing false,
\* current_frame 0.
C35_PlaybackTerminates ==
    (timer_active /\ state.playing)
        ~> (~timer_active /\ ~state.playing /\ state.current_frame = 0)

\* the timer of a playback left to itself eventually stops: holds
C35_TimerStops ==
    (timer_active /\ state.playing) ~> (~timer_active /\ ~state.playing)


----------------------------------------------------------------------------
(***************************************************************************)
(* Further properties of the background generation                         *)
(***************************************************************************)
\* the sample time of an image: the timestamp its frame was decoded at
Paired(images, times) ==
    /\ Len(images) = Len(times)
    /\ \A i \in 1..Len(images) : images[i].t = times[i]

\* C36: in every finished result of a thumbnail job the images and the
\* timestamps have the same length and the i-th image is the frame decoded
\* at the i-th timestamp, so the strip draws each thumbnail at its own
\* timestamp.
C36_ThumbnailPairing ==
    /\ \A msg \in thumb_results :
           msg.kind = "finished" => Paired(msg.images, msg.times)
    /\ strip.visible => Paired(strip.pixmaps, strip.positions)


----------------------------------------------------------------------------
(***************************************************************************)
(* Further properties of the scrub bar                                     *)
(***************************************************************************)
\* TimelineWidget.inOut()
inOut == <<in_point, out_point>>

\* C37: after any sequence of setDuration, setPosition, setInPoint,
\* setOutPoint, clearInPoint and clearOutPoint the pair of the most recent
\* inOutChanged equals inOut(), (None, None) being the initial pair.
C37_MarkerNotificationsCurrent == in_out_emitted = inOut


----------------------------------------------------------------------------
(***************************************************************************)
(* Further properties of the decoder guards                                *)
(***************************************************************************)
\* C38: once a guarded extraction (ClipAdapter.get_frame / audio_array, a
\* worker's guarded decode) has returned or raised, its guard is free: a
\* guard is held only by a thread that is inside the decoder, so a decode
\* error in one caller never blocks a later caller.
C38_GuardReleased ==
    /\ \A m \in DOMAIN mutex_owner :
           mutex_owner[m] # None => mutex_owner[m] \in decoding
    /\ \A thread \in decode_raised \ decoding :
           \A m \in DOMAIN mutex_owner : mutex_owner[m] # thread

\* the waveform worker holds the guard that the thumbnail worker took and
\* gave back when its decode raised
C38_Witness ==
    /\ "thumb" \in decode_raised
    /\ "thumb" \notin decoding
    /\ "wave" \in decoding
    /\ mutex_owner["timeline"] = "wave"


\* C39: a programmatic position update (controller positionChanged -> scrub
\* bar setPosition) never makes the scrub bar emit positionChanged or
\* seekRequested: a handler of the controller leaves the scrub bar silent,
\* and a drag move emits its own position only, not one more for the
\* controller's answer, so no seek is triggered again.
C39_NoFeedback ==
    [][/\ (PositionUpdate /\ ~SliderMoveStep) => tl_signals' = <<>>
       /\ (PositionUpdate /\ SliderMoveStep) => Len(tl_signals') = 1]_vars

\* a tick moved the handle to frame 3 of 6 and the scrub bar stayed silent
C39_Witness ==
    /\ call.op = "tick"
    /\ Emitted("positionChanged") # {}
    /\ ~slider_down
    /\ slider_value = 480
    /\ tl_signals = <<>>


----------------------------------------------------------------------------
(***************************************************************************)
(* The thumbnail threads of the scrub bar and its thumbnailsBusy signal:   *)
(* generations start, workers run to their end, finished threads are      *)
(* cleared.  A started worker eventually returns and a finished thread's  *)
(* signal is eventually delivered.                                         *)
(***************************************************************************)
ThreadNext ==
    \/ SetMedia
    \/ ThumbnailWorkerRun
    \/ ClearThread

ThreadSpec ==
    /\ Init
    /\ [][ThreadNext]_vars
    /\ WF_vars(ThumbnailWorkerRun)
    /\ WF_vars(ClearThread)

\* a step of _clearThread that emits thumbnailsBusy(False)
BusyCleared ==
    /\ tl_call'.op = "_clearThread"
    /\ tl_call' # tl_call \/ threads_done' # threads_done
    /\ tl_call'.emitted

\* C40: every thumbnailsBusy(True) is eventually followed by a
\* thumbnailsBusy(False), once the latest generation has finished or
\* failed; no thumbnailsBusy(False) is emitted for a superseded thread; and
\* none is emitted while a thumbnail job is still running.
C40_BusyBalance ==
    /\ (tl_busy = <<TRUE>>) ~> (tl_busy = <<FALSE>>)
    /\ [][BusyCleared => tl_call'.thread = thumb_gen_id]_vars
    /\ [][BusyCleared => thumb_jobs' = {}]_vars

\* the first two parts: hold
C40_BusyEventuallyCleared ==
    /\ (tl_busy = <<TRUE>>) ~> (tl_busy = <<FALSE>>)
    /\ [][BusyCleared => tl_call'.thread = thumb_gen_id]_vars

====
